---- MODULE Spec2Model ----
(***************************************************************************)
(* A model of the plexus half-edge graph (MeshGraph): keyed storage of     *)
(* vertices, arcs, edges and faces, the arc views, and the topological     *)
(* edits split, bridge, extrude, remove and triangulate.                   *)
(* Geometry payloads carry no topology and are left out.                   *)
(***************************************************************************)
EXTENDS Integers, Sequences, FiniteSets, TLC

(* ----------------------------- bounds --------------------------------- *)
\* the number of edits applied to a constructed graph of at most MaxSmallArcs
\* arcs, to one of at most MaxWideArcs arcs, and to a larger one
MaxEdits == 2
MaxWideEdits == 1
MaxLargeEdits == 0
MaxSmallArcs == 8
MaxWideArcs == 14
\* the largest index given to a ByIndex selector
MaxIndex == 3

(* ----------------------------- options -------------------------------- *)
\* Option<ArcKey>::None, Option<FaceKey>::None, Option<EdgeKey>::None
NoArc == <<>>
NoFace == -1
NoEdge == -1
NoVertex == -1

(* ----------------------------- storage -------------------------------- *)
EmptyFn == [x \in {} |-> 0]

Put(f, k, v) == (k :> v) @@ f

Del(f, k) == [x \in (DOMAIN f) \ {k} |-> f[x]]

\* MeshGraph::new(): four empty storages, each with its own key sequence
NewGraph ==
  [vertices |-> EmptyFn, arcs |-> EmptyFn, edges |-> EmptyFn, faces |-> EmptyFn,
   vseq |-> 0, eseq |-> 0, fseq |-> 0]

vertex_count(G) == Cardinality(DOMAIN G.vertices)

arc_count(G) == Cardinality(DOMAIN G.arcs)

edge_count(G) == Cardinality(DOMAIN G.edges)

face_count(G) == Cardinality(DOMAIN G.faces)

Ok(G, v) == [ok |-> TRUE, err |-> "", g |-> G, val |-> v]

Err(e, G) == [ok |-> FALSE, err |-> e, g |-> G, val |-> NoArc]

(* ------------------------------ arc views ----------------------------- *)
into_opposite(ab) == <<ab[2], ab[1]>>

is_boundary_arc(G, ab) == G.arcs[ab].face = NoFace

\* rebind_into(key): Some(view) only when the key is in storage
rebind_arc(G, key) == IF key # NoArc /\ key \in DOMAIN G.arcs THEN key ELSE NoArc

reachable_opposite_arc(G, ab) == rebind_arc(G, into_opposite(ab))

\* ArcView::reachable_source_vertex: the view of the first key of the arc
reachable_source_vertex(G, ab) == IF ab[1] \in DOMAIN G.vertices THEN ab[1] ELSE NoVertex

\* ArcView::reachable_destination_vertex: the view of the second key
reachable_destination_vertex(G, ab) == IF ab[2] \in DOMAIN G.vertices THEN ab[2] ELSE NoVertex

reachable_next_arc(G, ab) == rebind_arc(G, G.arcs[ab].next)

reachable_previous_arc(G, ab) == rebind_arc(G, G.arcs[ab].previous)

reachable_boundary_arc(G, ab) ==
  IF is_boundary_arc(G, ab) THEN ab
  ELSE LET o == reachable_opposite_arc(G, ab)
       IN  IF o # NoArc /\ is_boundary_arc(G, o) THEN o ELSE NoArc

(* ----------------------------- ring walks ------------------------------ *)
\* the arcs of the ring of `start`, following next until the walk returns to
\* `start` (or breaks off); `fuel` bounds the walk by the number of arcs
RECURSIVE RingWalk(_, _, _, _)
RingWalk(G, start, cur, fuel) ==
  IF fuel = 0 THEN <<>>
  ELSE LET nxt == G.arcs[cur].next
       IN  IF nxt = start \/ nxt = NoArc \/ nxt \notin DOMAIN G.arcs THEN <<cur>>
           ELSE <<cur>> \o RingWalk(G, start, nxt, fuel - 1)

\* RingView::interior_arcs from the arc the ring was bound to
interior_arcs(G, ab) == RingWalk(G, ab, ab, arc_count(G))

\* RingView::arity / FaceView::arity
ring_arity(G, ab) == Len(interior_arcs(G, ab))

face_arity(G, f) == ring_arity(G, G.faces[f].arc)

\* the vertices of a face, one per arc of its ring
face_vertices(G, f) ==
  LET ring == interior_arcs(G, G.faces[f].arc)
  IN  [i \in 1..Len(ring) |-> ring[i][2]]

(* ----------------------- vertex edge circulator ------------------------ *)
\* EdgeCirculator::new: the outgoing edge of the vertex, twice
EdgeCirculator_new(G, v) == [edge |-> G.vertices[v].arc, breadcrumb |-> G.vertices[v].arc]

\* what a call of next hands back, and the circulator it leaves
Yield(item, c) == [item |-> item, c |-> c, panic |-> FALSE]

\* EdgeCirculator::next that ends on the incoming edge whose next is the
\* breadcrumb without yielding it
EdgeCirculator_next_short(G, c) ==
  IF c.edge = NoArc THEN Yield(NoArc, c)
  ELSE IF c.edge \notin DOMAIN G.arcs THEN [Yield(NoArc, c) EXCEPT !.panic = TRUE]
  ELSE IF reachable_opposite_arc(G, c.edge) = NoArc THEN Yield(NoArc, c)
  ELSE IF c.breadcrumb = NoArc THEN Yield(NoArc, c)
  ELSE IF c.breadcrumb = G.arcs[into_opposite(c.edge)].next
       THEN Yield(NoArc, [c EXCEPT !.breadcrumb = NoArc])
  ELSE Yield(into_opposite(c.edge), [c EXCEPT !.edge = G.arcs[into_opposite(c.edge)].next])

\* EdgeCirculator::next that keeps its breadcrumb and moves on when it is
\* back where it started
EdgeCirculator_next_around(G, c) ==
  IF c.edge = NoArc THEN Yield(NoArc, c)
  ELSE IF c.edge \notin DOMAIN G.arcs THEN [Yield(NoArc, c) EXCEPT !.panic = TRUE]
  ELSE IF reachable_opposite_arc(G, c.edge) = NoArc THEN Yield(NoArc, c)
  ELSE IF c.breadcrumb = NoArc THEN Yield(NoArc, c)
  ELSE Yield(into_opposite(c.edge), [c EXCEPT !.edge = G.arcs[into_opposite(c.edge)].next])

\* EdgeCirculator::next: no item without an edge, without its opposite or
\* without the breadcrumb; else the opposite (incoming) edge is the item, and
\* the circulator moves on to the next of the incoming edge, or drops the
\* breadcrumb when that is where it started; the unwrap of an edge that is
\* not in storage panics
EdgeCirculator_next(G, c) ==
  IF c.edge = NoArc THEN Yield(NoArc, c)
  ELSE IF c.edge \notin DOMAIN G.arcs THEN [Yield(NoArc, c) EXCEPT !.panic = TRUE]
  ELSE IF reachable_opposite_arc(G, c.edge) = NoArc THEN Yield(NoArc, c)
  ELSE IF c.breadcrumb = NoArc THEN Yield(NoArc, c)
  ELSE IF c.breadcrumb = G.arcs[into_opposite(c.edge)].next
       THEN Yield(into_opposite(c.edge), [c EXCEPT !.breadcrumb = NoArc])
  ELSE Yield(into_opposite(c.edge), [c EXCEPT !.edge = G.arcs[into_opposite(c.edge)].next])

\* the items of n calls of next at most, up to the first call without an
\* item, and the circulator left
RECURSIVE Drain(_, _, _, _)
drain_step(G, y, n, items) ==
  IF y.item = NoArc THEN [items |-> items, c |-> y.c, ended |-> TRUE, panic |-> y.panic]
  ELSE Drain(G, y.c, n - 1, Append(items, y.item))

Drain(G, c, n, items) ==
  IF n = 0 THEN [items |-> items, c |-> c, ended |-> FALSE, panic |-> FALSE]
  ELSE drain_step(G, EdgeCirculator_next(G, c), n, items)

\* VertexView::edges, collected: as many calls as the graph has arcs, and one
edges(G, v) == Drain(G, EdgeCirculator_new(G, v), arc_count(G) + 1, <<>>)

(* ------------------------ mutation primitives -------------------------- *)
\* the low-level steps of a commit; each is total on the storage it is given
\* the geometry of an arc, an edge and a face is the number 0 unless the
\* caller gives one; the geometry of a vertex is the position the caller
\* hands over with it. GivenPosition(k) is the position a caller gives to the
\* k-th vertex of a buffer or of an edit, a whole number that differs from
\* vertex to vertex
GivenPosition(k) == k * k + 2

NewArc ==
  [next |-> NoArc, previous |-> NoArc, face |-> NoFace, edge |-> NoEdge, geometry |-> 0]

insert_vertex(G, geometry) ==
  [G EXCEPT !.vertices = Put(G.vertices, G.vseq, [arc |-> NoArc, geometry |-> geometry]), !.vseq = G.vseq + 1]

connect_outgoing_arc(G, a, ab) ==
  IF a \in DOMAIN G.vertices THEN [G EXCEPT !.vertices[a].arc = ab] ELSE G

connect_neighboring_arcs(G, ab, bc) ==
  IF ab \in DOMAIN G.arcs /\ bc \in DOMAIN G.arcs
  THEN [G EXCEPT !.arcs[ab].next = bc, !.arcs[bc].previous = ab]
  ELSE G

connect_arc_to_face(G, ab, f) == [G EXCEPT !.arcs[ab].face = f]

connect_face_to_arc(G, ab, f) == [G EXCEPT !.faces[f].arc = ab]

connect_arc_to_edge(G, ab, e) == [G EXCEPT !.arcs[ab].edge = e]

\* an arc that is not there is inserted and made the leading arc of its source
get_or_insert_arc(G, span) ==
  IF span \in DOMAIN G.arcs THEN G
  ELSE connect_outgoing_arc([G EXCEPT !.arcs = Put(G.arcs, span, NewArc)], span[1], span)

\* the edge payload of a pair of arcs that has none yet
insert_edge(G, span) ==
  IF G.arcs[span].edge # NoEdge THEN G
  ELSE connect_arc_to_edge(
         connect_arc_to_edge(
           [G EXCEPT !.edges = Put(G.edges, G.eseq, [arc |-> span, geometry |-> 0]), !.eseq = G.eseq + 1],
           span, G.eseq),
         into_opposite(span), G.eseq)

\* both arcs of the composite edge over span = (a, b), inserted as a pair with
\* their edge when absent
get_or_insert_edge_with(G, span) ==
  insert_edge(get_or_insert_arc(get_or_insert_arc(G, span), into_opposite(span)), span)

(* ---------------------------- face insertion --------------------------- *)
SeqToSet(s) == {s[i] : i \in 1..Len(s)}

Perimeter(s) == [i \in 1..Len(s) |-> <<s[i], s[(i % Len(s)) + 1]>>]

\* the first boundary arc of `keys`, in order, or NoArc
RECURSIVE FindBoundary(_, _, _)
FindBoundary(G, keys, i) ==
  IF i > Len(keys) THEN NoArc
  ELSE IF keys[i] \in DOMAIN G.arcs /\ is_boundary_arc(G, keys[i]) THEN keys[i]
  ELSE FindBoundary(G, keys, i + 1)

\* FaceInsertCache::snapshot: the checks made before anything is written
FaceInsertError(G, vs) ==
  IF Cardinality(SeqToSet(vs)) # Len(vs) THEN "TopologyMalformed"
  ELSE IF \E i \in 1..Len(vs) : vs[i] \notin DOMAIN G.vertices THEN "TopologyNotFound"
  ELSE IF \E i \in 1..Len(vs) :
            /\ Perimeter(vs)[i] \in DOMAIN G.arcs
            /\ G.arcs[Perimeter(vs)[i]].face # NoFace
       THEN "TopologyConflict"
  ELSE ""

RECURSIVE InsertEdges(_, _, _)
InsertEdges(G, per, i) ==
  IF i > Len(per) THEN G
  ELSE InsertEdges(get_or_insert_edge_with(G, per[i]), per, i + 1)

insert_face_payload(G, ab) ==
  [G EXCEPT !.faces = Put(G.faces, G.fseq, [arc |-> ab, geometry |-> 0]), !.fseq = G.fseq + 1]

RECURSIVE connect_face_interior(_, _, _, _)
connect_face_interior(G, arcs, f, i) ==
  IF i > Len(arcs) THEN G
  ELSE connect_face_interior(
         connect_arc_to_face(
           connect_neighboring_arcs(G, arcs[i], arcs[(i % Len(arcs)) + 1]),
           arcs[i], f),
         arcs, f, i + 1)

\* two new boundary arcs meet at b, cb coming in and ba going out: they go
\* into the gap after the boundary arc xb that came into b before, or follow
\* one another when there was none
connect_exterior_gap(G, S, cb, ba, xb) ==
  IF xb = NoArc THEN connect_neighboring_arcs(G, cb, ba)
  ELSE connect_neighboring_arcs(connect_neighboring_arcs(G, xb, ba),
                                cb, S.arcs[xb].next)

\* the exterior arcs at the vertex b between the arcs ab and bc of the face:
\* S is the storage of the snapshot, which tells the arcs that were there
\* from those the insertion brought
connect_exterior_at(G, S, ab, bc) ==
  IF ab \in DOMAIN S.arcs /\ bc \in DOMAIN S.arcs
  THEN IF S.arcs[ab].next = bc THEN G
       ELSE connect_neighboring_arcs(G, S.arcs[bc].previous, S.arcs[ab].next)
  ELSE IF ab \in DOMAIN S.arcs
  THEN connect_neighboring_arcs(G, into_opposite(bc), S.arcs[ab].next)
  ELSE IF bc \in DOMAIN S.arcs
  THEN connect_neighboring_arcs(G, S.arcs[bc].previous, into_opposite(ab))
  ELSE connect_exterior_gap(G, S, into_opposite(bc), into_opposite(ab),
                            FindBoundary(S, edges(S, ab[2]).items, 1))

\* the opposites of the arcs of the face that are boundary arcs are linked
\* into the exterior rings, vertex by vertex
RECURSIVE connect_face_exterior(_, _, _, _)
connect_face_exterior(G, S, arcs, i) ==
  IF i > Len(arcs) THEN G
  ELSE connect_face_exterior(
         connect_exterior_at(G, S, arcs[i], arcs[(i % Len(arcs)) + 1]),
         S, arcs, i + 1)

\* face::insert_face_with_cache: the edges, the face, the interior ring and
\* the exterior rings, in this order; the key of the face is G.fseq
insert_face_with_cache(G, vs) ==
  connect_face_exterior(
    connect_face_interior(
      insert_face_payload(InsertEdges(G, Perimeter(vs), 1), Perimeter(vs)[1]),
      Perimeter(vs), G.fseq, 1),
    G, Perimeter(vs), 1)

\* FaceMutation::insert_face: snapshot, then the insertion itself
insert_face(G, vs) ==
  IF FaceInsertError(G, vs) # "" THEN Err(FaceInsertError(G, vs), G)
  ELSE Ok(insert_face_with_cache(G, vs), G.fseq)

\* FaceRemoveCache / face::remove_with_cache: the face goes, the arcs of its
\* ring stay and become boundary arcs
RECURSIVE disconnect_face_interior(_, _, _)
disconnect_face_interior(G, arcs, i) ==
  IF i > Len(arcs) THEN G
  ELSE disconnect_face_interior(connect_arc_to_face(G, arcs[i], NoFace), arcs, i + 1)

remove_face_payload(G, f) == [G EXCEPT !.faces = Del(G.faces, f)]

remove_face(G, f) ==
  remove_face_payload(disconnect_face_interior(G, interior_arcs(G, G.faces[f].arc), 1), f)

(* ------------------------------ outcomes ------------------------------- *)
\* what a call hands back: a value (Ok), a GraphError (Err) or a panic of
\* expect_consistent / unwrap; g is the storage the graph is left with, and
\* detail the values an error carries (ArityConflict: expected and actual)
Done(G, v) == [kind |-> "Ok", err |-> "", g |-> G, val |-> v, detail |-> <<0, 0>>]

Fail(e, G) == [kind |-> "Err", err |-> e, g |-> G, val |-> NoArc, detail |-> <<0, 0>>]

Panic(G) == [kind |-> "Panic", err |-> "", g |-> G, val |-> NoArc, detail |-> <<0, 0>>]

\* Mutation::commit_with followed by expect_consistent: the storage was
\* swapped for the Default graph, which is what a failed commit leaves behind
commit_with(r) == IF r.ok THEN Done(r.g, r.val) ELSE Panic(NewGraph)

(* ------------------------------- split --------------------------------- *)
\* the arc and the edge payload it refers to are taken out of storage
remove_arc(G, ab) ==
  [G EXCEPT !.arcs = Del(G.arcs, ab),
            !.edges = IF G.arcs[ab].edge \in DOMAIN G.edges
                      THEN Del(G.edges, G.arcs[ab].edge) ELSE G.edges]

\* am and mb take the face of the arc they replace, which now leads with am
connect_split_to_face(G, am, mb, f) ==
  IF f = NoFace THEN G
  ELSE connect_arc_to_face(
         connect_arc_to_face(connect_face_to_arc(G, am, f), am, f), mb, f)

\* am and mb take the place `old` had in its ring
connect_split(G, am, mb, old) ==
  connect_split_to_face(
    connect_neighboring_arcs(
      connect_neighboring_arcs(connect_neighboring_arcs(G, am, mb), old.previous, am),
      mb, old.next),
    am, mb, old.face)

\* one arc ab of the edge is taken out and the arcs am, mb put in its place
split_at_vertex(G, a, b, m, ab) ==
  connect_split(
    get_or_insert_edge_with(get_or_insert_edge_with(remove_arc(G, ab), <<a, m>>),
                            <<m, b>>),
    <<a, m>>, <<m, b>>, G.arcs[ab])

\* EdgeSplitCache::snapshot and edge::split_with_cache: the vertex m, then
\* each side of the edge
split_with_cache(G, ab) ==
  IF ab \notin DOMAIN G.arcs \/ into_opposite(ab) \notin DOMAIN G.arcs
  THEN Err("TopologyNotFound", G)
  ELSE Ok(split_at_vertex(
            split_at_vertex(insert_vertex(G, GivenPosition(G.vseq)), ab[1], ab[2], G.vseq, ab),
            ab[2], ab[1], G.vseq, into_opposite(ab)),
          G.vseq)

\* a variant of split_with that leaves the first half of the arc pointing
\* past the new vertex
split_with_stale_next(G, ab) ==
  [commit_with(split_with_cache(G, ab))
     EXCEPT !.g.arcs[<<ab[1], G.vseq>>].next = G.arcs[ab].next]

\* a variant of split_with that leaves the second half of the arc without a
\* next arc
split_with_open_ring(G, ab) ==
  [commit_with(split_with_cache(G, ab)) EXCEPT !.g.arcs[<<G.vseq, ab[2]>>].next = NoArc]

\* a variant of split_with that leaves the arc from the new vertex back to
\* the source without its edge
split_with_unpaired_arc(G, ab) ==
  [commit_with(split_with_cache(G, ab)) EXCEPT !.g.arcs[<<G.vseq, ab[1]>>].edge = NoEdge]

\* a variant of split_with that splits one side of the edge only
split_with_one_side(G, ab) ==
  commit_with(Ok(split_at_vertex(insert_vertex(G, GivenPosition(G.vseq)), ab[1], ab[2], G.vseq, ab), G.vseq))

\* a variant of split_with after which the new vertex leads with the arc
\* back to the source
split_with_leading_back(G, ab) ==
  [commit_with(split_with_cache(G, ab))
     EXCEPT !.g.vertices[G.vseq].arc = <<G.vseq, ab[1]>>]

\* ArcView::split_with: the snapshot and the commit are both expected to
\* succeed
split_with(G, ab) ==
  IF ab \notin DOMAIN G.arcs \/ into_opposite(ab) \notin DOMAIN G.arcs THEN Panic(G)
  ELSE commit_with(split_with_cache(G, ab))

(* ------------------------------- bridge -------------------------------- *)
\* Selector::key_or_else with the resolver of ArcView::bridge: the n-th arc
\* of the source's ring, counted from the source
ByKey(k) == [by |-> "key", key |-> k, index |-> 0]

ByIndex(n) == [by |-> "index", key |-> NoArc, index |-> n]

\* a variant of key_or_else that counts the index round the ring again
key_or_else_wrapping(G, source, destination) ==
  IF destination.by = "key" THEN Ok(G, destination.key)
  ELSE Ok(G, interior_arcs(G, source)[(destination.index % ring_arity(G, source)) + 1])

key_or_else(G, source, destination) ==
  IF destination.by = "key" THEN Ok(G, destination.key)
  ELSE IF destination.index + 1 <= ring_arity(G, source)
       THEN Ok(G, interior_arcs(G, source)[destination.index + 1])
       ELSE Err("TopologyNotFound", G)

\* ArcBridgeCache::snapshot: both arcs exist, and every arc of the ring over
\* a, b, c, d that is already there is a boundary arc
ArcBridgeError(G, source, destination) ==
  IF source \notin DOMAIN G.arcs \/ destination \notin DOMAIN G.arcs
  THEN "TopologyNotFound"
  ELSE IF \E i \in 1..4 :
            /\ Perimeter(source \o destination)[i] \in DOMAIN G.arcs
            /\ ~is_boundary_arc(G, Perimeter(source \o destination)[i])
       THEN "TopologyConflict"
  ELSE ""

\* edge::bridge_with_cache: the face over a, b, c, d
bridge_with_cache(G, source, destination) == insert_face(G, source \o destination)

\* the snapshot on the storage, then the commit
bridge_snapshot(G, source, destination, e) ==
  IF e # "" THEN Fail(e, G) ELSE commit_with(bridge_with_cache(G, source, destination))

bridge_arcs(G, source, destination) ==
  bridge_snapshot(G, source, destination, ArcBridgeError(G, source, destination))

bridge_selected(G, source, d) ==
  IF ~d.ok THEN Fail(d.err, G) ELSE bridge_arcs(G, source, d.val)

\* a variant of bridge that leaves the source arc without the face
bridge_without_face(G, source, destination) ==
  [bridge_selected(G, source, key_or_else(G, source, destination))
     EXCEPT !.g = IF source \in DOMAIN @.arcs THEN connect_arc_to_face(@, source, NoFace)
                  ELSE @]

\* a variant of bridge that swaps the storage for the Default graph before
\* the snapshot is taken
bridge_replace_first(G, source, destination) ==
  [bridge_selected(G, source, key_or_else(G, source, destination))
     EXCEPT !.g = IF ~key_or_else(G, source, destination).ok
                     \/ ArcBridgeError(G, source, key_or_else(G, source, destination).val) # ""
                  THEN NewGraph ELSE @]

\* a variant of bridge without the snapshot's checks
bridge_unchecked(G, source, destination) ==
  IF ~key_or_else(G, source, destination).ok
       \/ key_or_else(G, source, destination).val \notin DOMAIN G.arcs
  THEN Fail("TopologyNotFound", G)
  ELSE commit_with(bridge_with_cache(G, source, key_or_else(G, source, destination).val))

\* a variant of bridge that closes the ring over a, b, c
bridge_triangle(G, source, destination) ==
  IF bridge_selected(G, source, key_or_else(G, source, destination)).kind # "Ok"
  THEN bridge_selected(G, source, key_or_else(G, source, destination))
  ELSE commit_with(insert_face(G, <<source[1], source[2],
                                    key_or_else(G, source, destination).val[1]>>))

\* a variant of bridge that closes the ring over three vertices when the two
\* arcs share one
bridge_collapsed(G, source, destination) ==
  IF /\ key_or_else(G, source, destination).ok
     /\ ArcBridgeError(G, source, key_or_else(G, source, destination).val) = ""
     /\ Cardinality(SeqToSet(source \o key_or_else(G, source, destination).val)) = 3
  THEN commit_with(insert_face(G, <<source[1], source[2],
                                    key_or_else(G, source, destination).val[2]>>))
  ELSE bridge_selected(G, source, key_or_else(G, source, destination))

\* a variant of bridge that leaves the source arc pointing back at the arc
\* before it
bridge_turned_back(G, source, destination) ==
  IF bridge_selected(G, source, key_or_else(G, source, destination)).kind = "Ok"
  THEN [bridge_selected(G, source, key_or_else(G, source, destination))
          EXCEPT !.g.arcs[source].next =
            bridge_selected(G, source, key_or_else(G, source, destination)).g.arcs[source].previous]
  ELSE bridge_selected(G, source, key_or_else(G, source, destination))

\* ArcView::bridge
bridge(G, source, destination) ==
  bridge_selected(G, source, key_or_else(G, source, destination))

(* ------------------------------- extrude ------------------------------- *)
\* ArcExtrudeCache::snapshot
ArcExtrudeError(G, ab) ==
  IF ab \notin DOMAIN G.arcs THEN "TopologyNotFound"
  ELSE IF ~is_boundary_arc(G, ab) THEN "TopologyMalformed"
  ELSE ""

\* the outcome r of a step, handing back v in place of what r handed back
with_value(r, v) == IF r.ok THEN Ok(r.g, v) ELSE r

\* ArcBridgeCache::snapshot on the storage of the mutation, then the bridge
bridge_in_commit(G, source, destination) ==
  IF ArcBridgeError(G, source, destination) # ""
  THEN Err(ArcBridgeError(G, source, destination), G)
  ELSE bridge_with_cache(G, source, destination)

\* the translated edge cd on two new vertices, its two arcs a ring of their own
extrude_edge(G, cd) ==
  connect_neighboring_arcs(
    connect_neighboring_arcs(
      get_or_insert_edge_with(
        insert_vertex(insert_vertex(G, GivenPosition(G.vseq)), GivenPosition(G.vseq + 1)), cd), cd, into_opposite(cd)),
    into_opposite(cd), cd)

\* edge::extrude_with_cache: the edge cd, then the bridge of ab and cd; cd is
\* handed back
extrude_with_cache(G, ab) ==
  with_value(
    bridge_in_commit(extrude_edge(G, <<G.vseq, G.vseq + 1>>), ab, <<G.vseq, G.vseq + 1>>),
    <<G.vseq, G.vseq + 1>>)

\* a variant of extrude that hands back the arc of the new edge that faces
\* away from the initiating arc
extrude_facing_away(G, ab) ==
  IF ArcExtrudeError(G, ab) # "" THEN Panic(G)
  ELSE [commit_with(extrude_with_cache(G, ab)) EXCEPT !.val = <<G.vseq + 1, G.vseq>>]

\* ArcView::extrude: the snapshot is expected to succeed, and so is the commit
extrude(G, ab) ==
  IF ArcExtrudeError(G, ab) # "" THEN Panic(G)
  ELSE commit_with(extrude_with_cache(G, ab))

(* ------------------------------- remove -------------------------------- *)
\* the face of ab, when it has one, goes
remove_face_of(G, ab) ==
  IF G.arcs[ab].face # NoFace THEN remove_face(G, G.arcs[ab].face) ELSE G

\* xa is followed by ax across the gap ab / ba leaves at a, unless one of
\* them is an arc of the edge itself
connect_across(G, xa, ax, ab) ==
  IF xa # NoArc /\ ax # NoArc /\ xa # into_opposite(ab) /\ ax # ab
  THEN connect_neighboring_arcs(G, xa, ax) ELSE G

\* a leads with ax, another of its outgoing arcs; a goes when it has none
connect_or_remove_vertex(G, a, ax, ab) ==
  IF ax # NoArc /\ ax # ab THEN connect_outgoing_arc(G, a, ax)
  ELSE [G EXCEPT !.vertices = Del(G.vertices, a)]

\* the arcs at the ends of the edge, as the snapshot finds them
RemoveCache(G, ab) ==
  [xa |-> G.arcs[ab].previous, bx |-> G.arcs[ab].next,
   xb |-> G.arcs[into_opposite(ab)].previous, ax |-> G.arcs[into_opposite(ab)].next]

\* edge::remove_with_cache: the faces of both arcs go, the rings are closed
\* across the gap, an endpoint left without an outgoing arc goes, and the two
\* arcs and their edge go
remove_edge(G, ab, c) ==
  remove_arc(
    remove_arc(
      connect_or_remove_vertex(
        connect_or_remove_vertex(
          connect_across(
            connect_across(
              remove_face_of(remove_face_of(G, ab), into_opposite(ab)),
              c.xa, c.ax, ab),
            c.xb, c.bx, into_opposite(ab)),
          ab[1], c.ax, ab),
        ab[2], c.bx, into_opposite(ab)),
      ab),
    into_opposite(ab))

\* EdgeRemoveCache::snapshot and edge::remove_with_cache; the source vertex a
\* is handed back
remove_with_cache(G, ab) ==
  IF ab \notin DOMAIN G.arcs \/ into_opposite(ab) \notin DOMAIN G.arcs
  THEN Err("TopologyNotFound", G)
  ELSE Ok(remove_edge(G, ab, RemoveCache(G, ab)), ab[1])

\* View::bind_into(storage, a): Some(view of a) when a is still in storage
bind_vertex(r, a) ==
  IF r.kind = "Ok" /\ a \notin DOMAIN r.g.vertices THEN [r EXCEPT !.val = NoVertex] ELSE r

\* a variant of remove that takes one arc of the edge out and leaves the other
remove_one_arc(G, ab) == Done([G EXCEPT !.arcs = Del(G.arcs, ab)], ab[1])

\* a variant of remove that does not close the rings across the gap
remove_without_closing(G, ab) ==
  bind_vertex(
    commit_with(
      Ok(remove_arc(
           remove_arc(
             connect_or_remove_vertex(
               connect_or_remove_vertex(
                 remove_face_of(remove_face_of(G, ab), into_opposite(ab)),
                 ab[1], RemoveCache(G, ab).ax, ab),
               ab[2], RemoveCache(G, ab).bx, into_opposite(ab)),
             ab),
           into_opposite(ab)),
         ab[1])),
    ab[1])

\* a variant of remove that leaves a vertex without arcs in storage
remove_keeping_vertices(G, ab) ==
  [commit_with(remove_with_cache(G, ab))
     EXCEPT !.g.vertices = [v \in DOMAIN G.vertices |->
                              IF v \in DOMAIN @ THEN @[v] ELSE G.vertices[v]]]

\* a variant of remove that hands back no vertex
remove_without_view(G, ab) ==
  [commit_with(remove_with_cache(G, ab)) EXCEPT !.val = NoVertex]

\* a variant of remove that hands back the source vertex without looking it up
remove_unbound(G, ab) == commit_with(remove_with_cache(G, ab))

\* a variant of remove after which the keys of faces are issued from the
\* first key again
remove_recycling_keys(G, ab) ==
  [bind_vertex(commit_with(remove_with_cache(G, ab)), ab[1]) EXCEPT !.g.fseq = 0]

\* a variant of remove that leaves the payload of the edge in storage
remove_keeping_edge(G, ab) ==
  [bind_vertex(commit_with(remove_with_cache(G, ab)), ab[1]) EXCEPT !.g.edges = G.edges]

\* ArcView::remove: the source vertex is bound and the snapshot is taken
\* before the storage is handed to the mutation; when the vertex or an arc of
\* the edge is not in storage the call panics and the storage is as it was
remove(G, ab) ==
  IF reachable_source_vertex(G, ab) = NoVertex THEN Panic(G)
  ELSE IF ab \notin DOMAIN G.arcs \/ into_opposite(ab) \notin DOMAIN G.arcs THEN Panic(G)
  ELSE bind_vertex(commit_with(remove_with_cache(G, ab)), ab[1])

(* ----------------------------- triangulate ----------------------------- *)
\* the second face of a split, inserted when the first was
insert_face_after(r, vs) == IF r.ok THEN insert_face(r.g, vs) ELSE r

\* FaceSplitCache::snapshot and face::split_with_cache between the vertices
\* at positions 0 and 2 of the face vs: the face goes and the two faces over
\* the path 0..2 and over the rest of the ring are inserted
split_face_at(G, f, vs) ==
  IF Len(vs) <= 3 THEN Err("TopologyMalformed", G)
  ELSE insert_face_after(
         insert_face(remove_face(G, f), <<vs[1], vs[2], vs[3]>>),
         [i \in 1..(Len(vs) - 1) |-> IF i = Len(vs) - 1 THEN vs[1] ELSE vs[i + 2]])

split_face(G, f) == split_face_at(G, f, face_vertices(G, f))

\* FaceView::triangulate: split a triangle off until a triangle is left
RECURSIVE triangulate_face(_, _, _)
triangulate_split(r, fuel) ==
  IF r.ok THEN triangulate_face(r.g, r.val, fuel) ELSE Panic(NewGraph)

triangulate_face(G, f, fuel) ==
  IF fuel = 0 \/ face_arity(G, f) <= 3 THEN Done(G, f)
  ELSE triangulate_split(split_face(G, f), fuel - 1)

\* the keys of a storage in the order its iteration yields them
RECURSIVE KeysInOrder(_)
KeysInOrder(S) ==
  IF S = {} THEN <<>>
  ELSE LET k == CHOOSE x \in S : \A y \in S : x <= y
       IN  <<k>> \o KeysInOrder(S \ {k})

\* MeshGraph::triangulate: the face keys are collected first, then each is
\* looked up (unwrap) and triangulated; the outcome carries the number of
\* faces the loop has visited
RECURSIVE TriangulateFaces(_, _, _)
triangulate_next(r, keys, i) ==
  IF r.kind = "Ok" THEN TriangulateFaces(r.g, keys, i) ELSE r

TriangulateFaces(G, keys, i) ==
  IF i > Len(keys) THEN [Done(G, NoFace) EXCEPT !.detail = <<i - 1, 0>>]
  ELSE IF keys[i] \notin DOMAIN G.faces THEN [Panic(G) EXCEPT !.err = "unwrap"]
  ELSE triangulate_next(triangulate_face(G, keys[i], arc_count(G)), keys, i + 1)

\* a variant of triangulate that puts a vertex into the graph for the fan of
\* its faces
triangulate_with_centroid(G) ==
  [TriangulateFaces(G, KeysInOrder(DOMAIN G.faces), 1) EXCEPT !.g = insert_vertex(@, GivenPosition(@.vseq))]

\* a variant of triangulate that stops after the first face
triangulate_first_face(G) ==
  IF DOMAIN G.faces = {} THEN Done(G, NoFace)
  ELSE TriangulateFaces(G, <<KeysInOrder(DOMAIN G.faces)[1]>>, 1)

\* a variant of triangulate that takes the next face from the storage as it
\* is after each face, and not from the keys collected before
RECURSIVE TriangulateLive(_, _, _)
triangulate_live_next(r, visited, n) ==
  IF r.kind = "Ok" THEN TriangulateLive(r.g, visited, n) ELSE r

TriangulateLive(G, visited, n) ==
  IF DOMAIN G.faces \subseteq visited THEN [Done(G, NoFace) EXCEPT !.detail = <<n, 0>>]
  ELSE triangulate_live_next(
         triangulate_face(G, KeysInOrder(DOMAIN G.faces \ visited)[1], arc_count(G)),
         visited \cup {KeysInOrder(DOMAIN G.faces \ visited)[1]}, n + 1)

triangulate_live_keys(G) == TriangulateLive(G, {}, 0)

triangulate(G) == TriangulateFaces(G, KeysInOrder(DOMAIN G.faces), 1)

(* ---------------------------- construction ----------------------------- *)
\* the vertex buffer of n positions a caller hands over
Positions(n) == [k \in 1..n |-> GivenPosition(k - 1)]

\* a vertex for each position of the buffer, in order
RECURSIVE InsertVertices(_, _)
InsertVertices(G, vertices) ==
  IF vertices = <<>> THEN G
  ELSE InsertVertices(insert_vertex(G, Head(vertices)), Tail(vertices))

Min(x, y) == IF x <= y THEN x ELSE y

\* Mutation::commit of the construction
commit(G) == Done(G, NoFace)

\* the k-th chunk of `arity` indices
Chunk(indices, arity, k) ==
  SubSeq(indices, (k - 1) * arity + 1, Min(k * arity, Len(indices)))

\* the loop of from_raw_buffers_with_arity over the chunks of the index
\* buffer; val is the storage as it was when the failing face came up
RECURSIVE BuildFaces(_, _, _, _, _)

\* a variant of BuildInserted that goes on after a face was rejected
BuildInsertedUnchecked(r, G, indices, nverts, arity, k) ==
  BuildFaces(r.g, indices, nverts, arity, k + 1)

\* mutation.insert_face(..)?: the error of the insertion ends the loop
BuildInserted(r, G, indices, nverts, arity, k) ==
  IF ~r.ok THEN [Fail(r.err, r.g) EXCEPT !.val = G]
  ELSE BuildFaces(r.g, indices, nverts, arity, k + 1)

\* a variant of BuildFace that looks the indices up before it counts them
BuildFaceLookupFirst(G, face, indices, nverts, arity, k) ==
  IF \E i \in 1..Len(face) : face[i] >= nverts
  THEN [Fail("TopologyNotFound", G) EXCEPT !.val = G]
  ELSE IF Len(face) # arity
  THEN [Fail("ArityConflict", G) EXCEPT !.val = G, !.detail = <<arity, Len(face)>>]
  ELSE BuildInserted(insert_face(G, face), G, indices, nverts, arity, k)

\* a variant of BuildFace that inserts the face with the opposite winding
BuildFaceReversed(G, face, indices, nverts, arity, k) ==
  IF Len(face) # arity
  THEN [Fail("ArityConflict", G) EXCEPT !.val = G, !.detail = <<arity, Len(face)>>]
  ELSE IF \E i \in 1..arity : face[i] >= nverts
  THEN [Fail("TopologyNotFound", G) EXCEPT !.val = G]
  ELSE BuildInserted(insert_face(G, [i \in 1..arity |-> face[arity + 1 - i]]),
                     G, indices, nverts, arity, k)

BuildFace(G, face, indices, nverts, arity, k) ==
  IF Len(face) # arity
  THEN [Fail("ArityConflict", G) EXCEPT !.val = G, !.detail = <<arity, Len(face)>>]
  ELSE IF \E i \in 1..arity : face[i] >= nverts
  THEN [Fail("TopologyNotFound", G) EXCEPT !.val = G]
  ELSE BuildInserted(insert_face(G, face), G, indices, nverts, arity, k)

BuildFaces(G, indices, nverts, arity, k) ==
  IF (k - 1) * arity >= Len(indices) THEN [commit(G) EXCEPT !.val = G]
  ELSE BuildFace(G, Chunk(indices, arity, k), indices, nverts, arity, k)

from_raw_buffers_with_arity(indices, vertices, arity) ==
  IF arity < 3 THEN [Fail("ArityNonPolygonal", NewGraph) EXCEPT !.val = NewGraph]
  ELSE BuildFaces(InsertVertices(NewGraph, vertices), indices, Len(vertices), arity, 1)

(* ------------------------- buffers of polygons ------------------------- *)
\* the loop of from_raw_buffers over the polygons of the index buffer, each
\* of its own arity; val is the storage as it was when the failing face
\* came up
RECURSIVE RawFaces(_, _, _, _)

\* vertices.get(index).ok_or_else(|| TopologyNotFound)? for each index of
\* the face, then mutation.insert_face(..)?: an error ends the loop
RawFace(G, face, faces, nverts, k) ==
  IF \E i \in 1..Len(face) : face[i] >= nverts
  THEN [Fail("TopologyNotFound", G) EXCEPT !.val = G]
  ELSE LET r == insert_face(G, face)
       IN  IF ~r.ok THEN [Fail(r.err, r.g) EXCEPT !.val = G]
           ELSE RawFaces(r.g, faces, nverts, k + 1)

RawFaces(G, faces, nverts, k) ==
  IF k > Len(faces) THEN [commit(G) EXCEPT !.val = G]
  ELSE RawFace(G, faces[k], faces, nverts, k)

\* MeshGraph::from_raw_buffers, which TryFrom<MeshBuffer<P, H>> calls with
\* the buffers of the mesh buffer
from_raw_buffers(faces, vertices) ==
  RawFaces(InsertVertices(NewGraph, vertices), faces, Len(vertices), 1)

(* ------------------------------ decoding ------------------------------- *)
\* mutation.insert_face(perimeter, (Default::default(), geometry)): the face
\* goes in with the geometry given for it
insert_face_with(G, perimeter, geometry) ==
  LET r == insert_face(G, perimeter)
  IN  IF r.ok THEN [r EXCEPT !.g.faces[G.fseq].geometry = geometry] ELSE r

\* the loop of from_encoding over the faces, each a perimeter of indices and
\* a geometry: keys[index] panics on an index past the vertices
RECURSIVE DecodeFaces(_, _, _, _)
DecodeFaces(G, faces, nverts, k) ==
  IF k > Len(faces) THEN [commit(G) EXCEPT !.val = G]
  ELSE IF \E i \in 1..Len(faces[k].perimeter) : faces[k].perimeter[i] >= nverts
  THEN [Panic(G) EXCEPT !.val = G]
  ELSE LET r == insert_face_with(G, faces[k].perimeter, faces[k].geometry)
       IN  IF ~r.ok THEN [Fail(r.err, r.g) EXCEPT !.val = G]
           ELSE DecodeFaces(r.g, faces, nverts, k + 1)

\* FromEncoding::from_encoding
from_encoding(vertices, faces) ==
  DecodeFaces(InsertVertices(NewGraph, vertices), faces, Len(vertices), 1)

(* ------------------------- collecting polygons ------------------------- *)
\* HashIndexer: the vertices of the polygons without repetition, in the order
\* in which they are first seen
RECURSIVE Dedup(_, _)
Dedup(s, acc) ==
  IF s = <<>> THEN acc
  ELSE Dedup(Tail(s), IF Head(s) \in SeqToSet(acc) THEN acc ELSE Append(acc, Head(s)))

RECURSIVE Flatten(_)
Flatten(polys) == IF polys = <<>> THEN <<>> ELSE Head(polys) \o Flatten(Tail(polys))

\* index_vertices: each polygon as the positions of its vertices among the
\* vertices without repetition, counted from 0
index_vertices(polys, vs) ==
  [p \in 1..Len(polys) |->
     [j \in 1..Len(polys[p]) |-> (CHOOSE n \in 1..Len(vs) : vs[n] = polys[p][j]) - 1]]

\* the loop of from_indexer: a face for each polygon, the first error is
\* handed back with `?`, and the commit at the end
RECURSIVE InsertFaces(_, _, _)
insert_next_face(r, faces, i) ==
  IF r.ok THEN InsertFaces(r.g, faces, i + 1) ELSE Fail(r.err, r.g)

InsertFaces(G, faces, i) ==
  IF i > Len(faces) THEN commit(G) ELSE insert_next_face(insert_face(G, faces[i]), faces, i)

\* FromIndexer::from_indexer with the HashIndexer: each vertex of the
\* polygons, taken once, is the geometry of a vertex of the graph
from_indexer(polys) ==
  InsertFaces(InsertVertices(NewGraph, Dedup(Flatten(polys), <<>>)),
              index_vertices(polys, Dedup(Flatten(polys), <<>>)), 1)

\* a variant of from_iter that hands back what was built before the error
from_iter_partial(polys) == from_indexer(polys).g

\* FromIterator::from_iter: unwrap_or_else(|_| Self::default())
from_iter(polys) ==
  IF from_indexer(polys).kind = "Ok" THEN from_indexer(polys).g ELSE NewGraph

\* the polygons handed to collect, each a sequence of vertex positions:
\* six triangles over five positions, a quadrilateral and a triangle on a
\* shared edge, two triangles on one arc, a polygon with a position twice,
\* an arc in two faces after a face went in, no polygon at all, two
\* tetrahedra that share one vertex, and two triangles that share one vertex
Polygons ==
  << << <<7, 2, 3>>, <<7, 3, 4>>, <<7, 4, 2>>, <<1, 3, 2>>, <<1, 4, 3>>, <<1, 2, 4>> >>,
     << <<5, 6, 8, 9>>, <<5, 9, 4>> >>,
     << <<0, 1, 2>>, <<0, 1, 3>> >>,
     << <<0, 0, 1>> >>,
     << <<0, 1, 2>>, <<2, 1, 3>>, <<1, 2, 4>> >>,
     << >>,
     << <<0, 1, 2>>, <<0, 3, 1>>, <<0, 2, 3>>, <<1, 3, 2>>,
        <<0, 4, 5>>, <<0, 6, 4>>, <<0, 5, 6>>, <<4, 6, 5>> >>,
     << <<0, 1, 2>>, <<0, 3, 4>> >> >>

(* ------------------------------- inputs -------------------------------- *)
Input(indices, nverts, arity) ==
  [indices |-> indices, nverts |-> nverts, vertices |-> Positions(nverts), arity |-> arity]

\* the index and vertex buffers handed to from_raw_buffers_with_arity
Inputs ==
  << Input(<<0, 1, 2>>, 3, 3),
     Input(<<0, 1, 2, 3>>, 4, 4),
     Input(<<0, 1, 2, 0, 2, 3>>, 4, 3),
     Input(<<0, 1, 2, 3, 4, 5>>, 6, 3),
     Input(<<0, 1, 2, 3, 0, 3, 4, 5>>, 6, 4),
     Input(<<0, 1, 2, 0, 1, 3, 0, 1, 4>>, 5, 3),
     Input(<<0, 1, 2, 1, 0, 3, 0, 1, 4>>, 5, 3),
     Input(<<0, 1, 2, 3>>, 4, 2),
     Input(<<0, 1, 2, 3>>, 4, 3),
     Input(<<0, 1, 4>>, 3, 3),
     Input(<<0, 0, 1>>, 2, 3),
     Input(<<0, 1, 2, 0, 1, 5, 3>>, 4, 3),
     Input(<<0, 1, 2, 0, 1, 2, 0, 1, 5>>, 3, 3),
     Input(<<0, 1, 2, 7>>, 3, 3),
     Input(<<0, 1, 7>>, 3, 2),
     Input(<<0, 1, 2>>, 4, 3) >>

\* the polygons and the vertex buffers handed to from_raw_buffers: a
\* triangle and a quadrilateral on one edge, a face with an index past the
\* vertices after a face that went in, and an arc in two faces
RawInputs ==
  << [faces |-> << <<0, 1, 2>>, <<0, 2, 3, 4>> >>, vertices |-> Positions(5)],
     [faces |-> << <<0, 1, 2>>, <<2, 1, 7>>, <<0, 2, 3>> >>, vertices |-> Positions(4)],
     [faces |-> << <<0, 1, 2>>, <<0, 1, 3, 4>> >>, vertices |-> Positions(5)] >>

\* the vertices and the faces handed to from_encoding: two triangles on one
\* edge, each with its geometry, a face with an index past the vertices, and
\* an arc in two faces
Encodings ==
  << [vertices |-> <<4, 1, 9, 6>>,
      faces |-> << [perimeter |-> <<0, 1, 2>>, geometry |-> 5],
                   [perimeter |-> <<0, 2, 3>>, geometry |-> 7] >>],
     [vertices |-> <<4, 1, 9>>,
      faces |-> << [perimeter |-> <<0, 1, 2>>, geometry |-> 5],
                   [perimeter |-> <<0, 2, 5>>, geometry |-> 7] >>],
     [vertices |-> <<4, 1, 9, 6>>,
      faces |-> << [perimeter |-> <<0, 1, 2>>, geometry |-> 5],
                   [perimeter |-> <<0, 1, 3>>, geometry |-> 7] >>] >>

(* ------------------------------- arity --------------------------------- *)
\* Arity::Uniform(n) and Arity::NonUniform(min, max)
Uniform(n) == [kind |-> "Uniform", min |-> n, max |-> n]

NonUniform(lo, hi) == [kind |-> "NonUniform", min |-> lo, max |-> hi]

\* the arities of the faces, in the order the face storage yields them
FaceArities(G) ==
  [i \in 1..face_count(G) |-> face_arity(G, KeysInOrder(DOMAIN G.faces)[i])]

\* Itertools::minmax: no element, one element, or the least and the greatest
\* of two elements or more
minmax(s) ==
  IF Len(s) = 0 THEN [kind |-> "NoElements", min |-> 0, max |-> 0]
  ELSE IF Len(s) = 1 THEN [kind |-> "OneElement", min |-> s[1], max |-> s[1]]
  ELSE [kind |-> "MinMax",
        min |-> CHOOSE x \in SeqToSet(s) : \A y \in SeqToSet(s) : x <= y,
        max |-> CHOOSE x \in SeqToSet(s) : \A y \in SeqToSet(s) : y <= x]

\* the match of MeshGraph::arity on the result of minmax
arity_of(r) ==
  IF r.kind = "OneElement" THEN Uniform(r.min)
  ELSE IF r.kind = "MinMax" THEN NonUniform(r.min, r.max)
  ELSE Uniform(0)

\* MeshGraph::arity
arity(G) == arity_of(minmax(FaceArities(G)))

(* ---------------------------- mesh buffers ----------------------------- *)
\* the number the enumeration of vertices() gives to the vertex key v
IndexOfKey(keys, v) == CHOOSE n \in 0..(Len(keys) - 1) : keys[n + 1] = v

\* the indices of the vertices of a face, in the order of its ring
FaceIndices(G, keys, f) ==
  [i \in 1..face_arity(G, f) |-> IndexOfKey(keys, face_vertices(G, f)[i])]

\* the loop over faces() of to_mesh_buffer_by_vertex_with: a face of another
\* arity than A ends it with ArityConflict
RECURSIVE BufferFaces(_, _, _, _, _, _)
BufferFaces(G, keys, faces, A, i, indices) ==
  IF i > Len(faces) THEN [ok |-> TRUE, err |-> "", indices |-> indices,
                          nverts |-> Len(keys), detail |-> <<0, 0>>]
  ELSE IF face_arity(G, faces[i]) # A
  THEN [ok |-> FALSE, err |-> "ArityConflict", indices |-> <<>>, nverts |-> 0,
        detail |-> <<A, face_arity(G, faces[i])>>]
  ELSE BufferFaces(G, keys, faces, A, i + 1, indices \o FaceIndices(G, keys, faces[i]))

\* MeshGraph::to_mesh_buffer_by_vertex_with for the arity A
to_mesh_buffer_by_vertex_with(G, A) ==
  BufferFaces(G, KeysInOrder(DOMAIN G.vertices), KeysInOrder(DOMAIN G.faces), A, 1, <<>>)

(* --------------------------- orphan iteration -------------------------- *)
\* the keys of the arc storage in the order its iteration yields them
RECURSIVE ArcKeysInOrder(_)
ArcKeysInOrder(S) ==
  IF S = {} THEN <<>>
  ELSE ArcKeysInOrder(S \ {CHOOSE x \in S : \A y \in S : x[1] > y[1] \/ (x[1] = y[1] /\ x[2] >= y[2])})
         \o <<CHOOSE x \in S : \A y \in S : x[1] > y[1] \/ (x[1] = y[1] /\ x[2] >= y[2])>>

\* OrphanView::from_keyed_source_unchecked((key, source)): the key of one
\* payload and its geometry, and nothing else of the storage
OrphanView(payloads, key) == [key |-> key, geometry |-> payloads[key].geometry]

\* iter_mut().map(from_keyed_source_unchecked): one orphan view for each key
Orphans(payloads, keys) == [i \in 1..Len(keys) |-> OrphanView(payloads, keys[i])]

\* MeshGraph::orphan_vertices
orphan_vertices(G) == Orphans(G.vertices, KeysInOrder(DOMAIN G.vertices))

\* MeshGraph::orphan_arcs
orphan_arcs(G) == Orphans(G.arcs, ArcKeysInOrder(DOMAIN G.arcs))

\* MeshGraph::orphan_edges
orphan_edges(G) == Orphans(G.edges, KeysInOrder(DOMAIN G.edges))

\* a variant of orphan_faces that leaves out the first face
orphan_faces_but_first(G) ==
  Orphans(G.faces, IF DOMAIN G.faces = {} THEN <<>> ELSE Tail(KeysInOrder(DOMAIN G.faces)))

\* MeshGraph::orphan_faces
orphan_faces(G) == Orphans(G.faces, KeysInOrder(DOMAIN G.faces))

\* `for mut x in orphans { x.geometry = value }`: each view writes the
\* geometry of the payload it was made from
WriteThrough(payloads, views, value) ==
  [k \in DOMAIN payloads |->
     IF k \in {views[i].key : i \in 1..Len(views)}
     THEN [payloads[k] EXCEPT !.geometry = value] ELSE payloads[k]]

\* the storages by name
ElementKinds == {"vertices", "arcs", "edges", "faces"}

\* the loop over the orphan views of one storage
write_geometry(G, elem, value) ==
  CASE elem = "vertices" ->
         [G EXCEPT !.vertices = WriteThrough(G.vertices, orphan_vertices(G), value)]
    [] elem = "arcs" -> [G EXCEPT !.arcs = WriteThrough(G.arcs, orphan_arcs(G), value)]
    [] elem = "edges" -> [G EXCEPT !.edges = WriteThrough(G.edges, orphan_edges(G), value)]
    [] elem = "faces" -> [G EXCEPT !.faces = WriteThrough(G.faces, orphan_faces(G), value)]

(* ------------------------------- smooth -------------------------------- *)
\* the vertices at the far end of the arcs that leave v
Neighbours(G, v) == {ab[2] : ab \in {x \in DOMAIN G.arcs : x[1] = v}} \cap DOMAIN G.vertices

RECURSIVE SumPositions(_, _)
SumPositions(G, S) ==
  IF S = {} THEN 0
  ELSE G.vertices[CHOOSE x \in S : TRUE].geometry
         + SumPositions(G, S \ {CHOOSE x \in S : TRUE})

\* vertex.centroid(): the mean of the positions of the neighbours, in whole
\* numbers; the position of the vertex when it has no neighbour
vertex_centroid(G, v) ==
  IF Neighbours(G, v) = {} THEN G.vertices[v].geometry
  ELSE SumPositions(G, Neighbours(G, v)) \div Cardinality(Neighbours(G, v))

\* position + ((vertex.centroid() - position) * factor)
smoothed_position(G, v, factor) ==
  G.vertices[v].geometry + ((vertex_centroid(G, v) - G.vertices[v].geometry) * factor)

\* the first loop of smooth: the new position of each vertex, in the order
\* the vertices are visited, is put in the map; the graph is only read
RECURSIVE collect_positions(_, _, _, _)
collect_positions(G, keys, factor, positions) ==
  IF keys = <<>> THEN positions
  ELSE collect_positions(G, Tail(keys), factor,
                         Put(positions, Head(keys), smoothed_position(G, Head(keys), factor)))

\* the second loop of smooth: each orphan view, in the order the views are
\* handed out, takes its position out of the map and writes it; the unwrap
\* of a key that is not in the map panics
RECURSIVE write_positions(_, _, _)
write_positions(G, views, positions) ==
  IF views = <<>> THEN [g |-> G, positions |-> positions, panic |-> FALSE]
  ELSE IF Head(views).key \notin DOMAIN positions
       THEN [g |-> G, positions |-> positions, panic |-> TRUE]
  ELSE write_positions([G EXCEPT !.vertices[Head(views).key].geometry = positions[Head(views).key]],
                       Tail(views), Del(positions, Head(views).key))

\* smooth with the vertices visited in the order `keys` and the orphan
\* views handed out in the order `views`
smooth_with(G, factor, keys, views) ==
  write_positions(G, views, collect_positions(G, keys, factor, <<>>))

\* a smooth of one loop: each vertex is moved as soon as its new position is
\* computed, so the vertices after it see it moved
RECURSIVE smooth_each(_, _, _)
smooth_each(G, keys, factor) ==
  IF keys = <<>> THEN [g |-> G, positions |-> <<>>, panic |-> FALSE]
  ELSE smooth_each([G EXCEPT !.vertices[Head(keys)].geometry = smoothed_position(G, Head(keys), factor)],
                   Tail(keys), factor)

smooth_in_place(G, factor) == smooth_each(G, KeysInOrder(DOMAIN G.vertices), factor)

\* MeshGraph::smooth
smooth(G, factor) == smooth_with(G, factor, KeysInOrder(DOMAIN G.vertices), orphan_vertices(G))

\* the factors a caller hands to smooth
Factors == {1, 2}

(* ------------------------------- state --------------------------------- *)
VARIABLES
  graph,   \* the storage of the MeshGraph (while building: of the mutation)
  status,  \* "new", "ok" (a graph is held), "rejected" (a graph is held and the
           \* last edit returned an error), "err" (no graph), "panic"
  last,    \* the last call and what it handed back
  prev,    \* the storage before the last call
  edits    \* the number of edits that may still be made

vars == <<graph, status, last, prev, edits>>

\* the record of a call: its arcs are kept when it succeeded; of a call that
\* did not, what is kept is whether its source and its destination were
\* boundary arcs (srcb, dstb), how the destination was selected (by) and
\* whether the selector resolved to an arc in storage (found), and whether an
\* index was given that the ring of the source has no arc for (over); index
\* and key are the selector of a call that succeeded; expected and actual are
\* what an ArityConflict carries
NoCall ==
  [op |-> "none", input |-> 0, src |-> NoArc, dst |-> NoArc, kind |-> "Ok", err |-> "",
   vertex |-> NoVertex, face |-> NoFace, arc |-> NoArc,
   srcb |-> FALSE, dstb |-> FALSE, by |-> "", found |-> FALSE, over |-> FALSE,
   index |-> 0, key |-> NoArc, expected |-> 0, actual |-> 0, elem |-> "", value |-> 0,
   read |-> <<>>]

Init ==
  /\ graph = NewGraph
  /\ status = "new"
  /\ last = NoCall
  /\ prev = NewGraph
  /\ edits = 0

\* a rejected edit leaves the graph as it was, so a run is not followed past it
StatusOf(r) ==
  IF r.kind = "Ok" THEN "ok" ELSE IF r.kind = "Panic" THEN "panic" ELSE "rejected"

\* the edits explored from a constructed graph
EditBudget(G) ==
  IF arc_count(G) <= MaxSmallArcs THEN MaxEdits
  ELSE IF arc_count(G) <= MaxWideArcs THEN MaxWideEdits
  ELSE MaxLargeEdits

\* MeshGraph::from_raw_buffers_with_arity
Build(i) ==
  /\ status = "new"
  /\ \E r \in {from_raw_buffers_with_arity(Inputs[i].indices, Inputs[i].vertices,
                                           Inputs[i].arity)} :
         /\ graph' = r.g
         /\ prev' = r.val
         /\ status' = IF r.kind = "Ok" THEN "ok" ELSE "err"
         /\ last' = [NoCall EXCEPT !.op = "build", !.input = i, !.kind = r.kind,
                                   !.err = r.err, !.expected = r.detail[1],
                                   !.actual = r.detail[2]]
         /\ edits' = EditBudget(r.g)

\* MeshGraph::from_raw_buffers
BuildPolygons(i) ==
  /\ status = "new"
  /\ \E r \in {from_raw_buffers(RawInputs[i].faces, RawInputs[i].vertices)} :
         /\ graph' = r.g
         /\ prev' = r.val
         /\ status' = IF r.kind = "Ok" THEN "ok" ELSE "err"
         /\ last' = [NoCall EXCEPT !.op = "from_raw_buffers", !.input = i, !.kind = r.kind,
                                   !.err = r.err]
         /\ edits' = EditBudget(r.g)

\* MeshGraph::from_encoding
Decode(i) ==
  /\ status = "new"
  /\ \E r \in {from_encoding(Encodings[i].vertices, Encodings[i].faces)} :
         /\ graph' = r.g
         /\ prev' = r.val
         /\ status' = IF r.kind = "Ok" THEN "ok" ELSE IF r.kind = "Panic" THEN "panic" ELSE "err"
         /\ last' = [NoCall EXCEPT !.op = "from_encoding", !.input = i, !.kind = r.kind,
                                   !.err = r.err]
         /\ edits' = EditBudget(r.g)

\* polygons.collect::<MeshGraph<_>>()
Collect(i) ==
  /\ status = "new"
  /\ graph' = from_iter(Polygons[i])
  /\ prev' = NewGraph
  /\ status' = "ok"
  /\ last' = [NoCall EXCEPT !.op = "collect", !.input = i, !.err = from_indexer(Polygons[i]).err]
  /\ edits' = EditBudget(from_iter(Polygons[i]))

CanEdit == status = "ok" /\ edits > 0

\* graph.arc_mut(ab).unwrap().split_with(..)
Split(ab) ==
  /\ CanEdit
  /\ \E r \in {split_with(graph, ab)} :
         /\ graph' = r.g
         /\ status' = StatusOf(r)
         /\ last' = [NoCall EXCEPT !.op = "split", !.kind = r.kind,
                                   !.src = IF r.kind = "Ok" THEN ab ELSE NoArc,
                                   !.srcb = is_boundary_arc(graph, ab),
                                   !.vertex = IF r.kind = "Ok" THEN r.val ELSE NoVertex]
  /\ prev' = graph
  /\ edits' = edits - 1

\* graph.arc_mut(ab).unwrap().bridge(destination)
Bridge(ab, destination) ==
  /\ CanEdit
  /\ \E d \in {key_or_else(graph, ab, destination)} :
     \E r \in {bridge(graph, ab, destination)} :
     \E in \in {d.ok /\ d.val \in DOMAIN graph.arcs} :
         /\ graph' = r.g
         /\ status' = StatusOf(r)
         /\ last' = [NoCall EXCEPT !.op = "bridge", !.kind = r.kind, !.err = r.err,
                                   !.src = IF r.kind # "Err" THEN ab ELSE NoArc,
                                   !.dst = IF r.kind # "Err" THEN d.val ELSE NoArc,
                                   !.srcb = is_boundary_arc(graph, ab),
                                   !.dstb = in /\ is_boundary_arc(graph, d.val),
                                   !.by = destination.by,
                                   !.found = in,
                                   !.over = /\ destination.by = "index"
                                            /\ destination.index >= ring_arity(graph, ab),
                                   !.index = IF r.kind = "Ok" THEN destination.index ELSE 0,
                                   !.key = IF r.kind = "Ok" THEN destination.key ELSE NoArc,
                                   !.face = IF r.kind = "Ok" THEN r.val ELSE NoFace]
  /\ prev' = graph
  /\ edits' = edits - 1

\* graph.arc_mut(ab).unwrap().extrude(..)
Extrude(ab) ==
  /\ CanEdit
  /\ \E r \in {extrude(graph, ab)} :
         /\ graph' = r.g
         /\ status' = StatusOf(r)
         /\ last' = [NoCall EXCEPT !.op = "extrude", !.kind = r.kind, !.err = r.err,
                                   !.src = IF r.kind = "Ok" THEN ab ELSE NoArc,
                                   !.srcb = is_boundary_arc(graph, ab),
                                   !.arc = IF r.kind = "Ok" THEN r.val ELSE NoArc]
  /\ prev' = graph
  /\ edits' = edits - 1

\* graph.arc_mut(ab).unwrap().remove()
Remove(ab) ==
  /\ CanEdit
  /\ \E r \in {remove(graph, ab)} :
         /\ graph' = r.g
         /\ status' = StatusOf(r)
         /\ last' = [NoCall EXCEPT !.op = "remove", !.kind = r.kind,
                                   !.src = IF r.kind = "Ok" THEN ab ELSE NoArc,
                                   !.srcb = is_boundary_arc(graph, ab),
                                   !.vertex = IF r.kind = "Ok" THEN r.val ELSE NoVertex]
  /\ prev' = graph
  /\ edits' = edits - 1

\* graph.triangulate()
Triangulate ==
  /\ CanEdit
  /\ \E r \in {triangulate(graph)} :
         /\ graph' = r.g
         /\ status' = StatusOf(r)
         /\ last' = [NoCall EXCEPT !.op = "triangulate", !.kind = r.kind, !.err = r.err,
                                   !.actual = r.detail[1]]
  /\ prev' = graph
  /\ edits' = edits - 1

\* `for mut x in graph.orphan_vertices() { x.geometry = value }`, and the same
\* for arcs, edges and faces; a graph is followed no further once written
Write(elem, value) ==
  /\ CanEdit
  /\ graph' = write_geometry(graph, elem, value)
  /\ status' = "written"
  /\ last' = [NoCall EXCEPT !.op = "write", !.elem = elem, !.value = value]
  /\ prev' = graph
  /\ edits' = edits - 1

\* graph.smooth(factor); a graph is followed no further once smoothed
Smooth(factor) ==
  /\ CanEdit
  /\ \E r \in {smooth(graph, factor)} :
         /\ graph' = r.g
         /\ last' = [NoCall EXCEPT !.op = "smooth", !.value = factor,
                                   !.kind = IF r.panic THEN "Panic" ELSE "Ok"]
  /\ status' = "smoothed"
  /\ prev' = graph
  /\ edits' = edits - 1

\* the keys a caller may hand to ByKey: the arcs of the graph and one key
\* that is in no storage
Selectors(G) ==
  {ByKey(k) : k \in (DOMAIN G.arcs) \cup {<<G.vseq, G.vseq + 1>>}}
    \cup {ByIndex(n) : n \in 0..MaxIndex}

(* ------------------------------ properties ----------------------------- *)
\* a graph is in the caller's hands: the last call built or edited it, or
\* was rejected with an error and left it as it was
Exposed == status \in {"ok", "rejected"}

\* the last call was the edit `op` and it succeeded
Succeeded(op) == status = "ok" /\ last.op = op /\ last.kind = "Ok"

\* C1: after a construction and after every successful split, bridge,
\* extrude, remove or triangulate, each arc (A, B) in storage has its
\* opposite (B, A) in storage
C1_OppositeArcs ==
  Exposed => \A ab \in DOMAIN graph.arcs : <<ab[2], ab[1]>> \in DOMAIN graph.arcs

\* C1 witness: an extrusion has put six arcs into storage
C1_Witness == Succeeded("extrude") /\ arc_count(graph) = arc_count(prev) + 6

\* C2: next and previous are inverse to each other: the next of an arc is in
\* storage and has the arc as its previous, and the previous of an arc is in
\* storage and has the arc as its next
C2_NextPreviousInverse ==
  Exposed =>
    \A ab \in DOMAIN graph.arcs :
      /\ graph.arcs[ab].next # NoArc =>
           /\ graph.arcs[ab].next \in DOMAIN graph.arcs
           /\ graph.arcs[graph.arcs[ab].next].previous = ab
      /\ graph.arcs[ab].previous # NoArc =>
           /\ graph.arcs[ab].previous \in DOMAIN graph.arcs
           /\ graph.arcs[graph.arcs[ab].previous].next = ab

\* C2 witness: a split has relinked the ring of a face
C2_Witness ==
  /\ Succeeded("split")
  /\ ~last.srcb
  /\ graph.arcs[<<last.src[1], last.vertex>>].next = <<last.vertex, last.src[2]>>

\* the arc reached from ab by following next n times, or NoArc
RECURSIVE NthNext(_, _, _)
NthNext(G, ab, n) ==
  IF n = 0 \/ ab \notin DOMAIN G.arcs THEN ab ELSE NthNext(G, G.arcs[ab].next, n - 1)

\* C3: following next from the leading arc of a face comes back to it after
\* exactly arity steps and not before, every arc on the way has the face as
\* its face, and no other arc does
C3_FaceRing ==
  Exposed =>
    \A f \in DOMAIN graph.faces :
      LET lead == graph.faces[f].arc
          n    == face_arity(graph, f)
      IN  /\ lead \in DOMAIN graph.arcs
          /\ NthNext(graph, lead, n) = lead
          /\ \A k \in 1..(n - 1) : NthNext(graph, lead, k) # lead
          /\ \A k \in 0..(n - 1) : graph.arcs[NthNext(graph, lead, k)].face = f
          /\ Cardinality({ab \in DOMAIN graph.arcs : graph.arcs[ab].face = f}) = n

\* C3 witness: a bridge has inserted a face next to the faces there were
C3_Witness == Succeeded("bridge") /\ face_count(graph) = 3

\* the faces of an index buffer, and the inputs in which some edge is a side
\* of three faces or more
FacesOf(in) == {k \in 1..(Len(in.indices) \div in.arity) : TRUE}

SidesOf(in, k) ==
  {{in.indices[(k - 1) * in.arity + i], in.indices[(k - 1) * in.arity + (i % in.arity) + 1]}
     : i \in 1..in.arity}

SharedByThree(in) ==
  /\ in.arity >= 3
  /\ \E k \in FacesOf(in) : \E e \in SidesOf(in, k) :
       Cardinality({j \in FacesOf(in) : e \in SidesOf(in, j)}) >= 3

\* C4: a construction from buffers in which a face would be the third on an
\* edge fails with TopologyConflict, no graph is handed back, and the
\* rejected insertion leaves the counts of vertices, arcs and faces as they
\* were when it came up
C4_ThirdFaceRejected ==
  (last.op = "build" /\ SharedByThree(Inputs[last.input])) =>
     /\ status = "err"
     /\ last.kind = "Err"
     /\ last.err = "TopologyConflict"
     /\ vertex_count(graph) = vertex_count(prev)
     /\ arc_count(graph) = arc_count(prev)
     /\ face_count(graph) = face_count(prev)

\* C4 witness: the third face of a fan around one edge was rejected after
\* two faces went in
C4_Witness ==
  /\ last.op = "build"
  /\ SharedByThree(Inputs[last.input])
  /\ last.err = "TopologyConflict"
  /\ face_count(prev) = 2

EditOps == {"split", "bridge", "extrude", "remove"}

GraphErrors ==
  {"TopologyNotFound", "TopologyConflict", "TopologyMalformed", "ArityNonPolygonal",
   "ArityConflict", "ArityNonUniform", "Geometry"}

\* C6: a bridge whose source or whose destination is an arc with a face hands
\* back a GraphError, does not panic, and leaves the graph as it was
C6_BridgeNeedsBoundary ==
  (last.op = "bridge" /\ (~last.srcb \/ (last.found /\ ~last.dstb))) =>
     /\ last.kind = "Err"
     /\ last.err \in GraphErrors
     /\ graph = prev

\* C6 witness: a bridge from a boundary arc to an arc with a face was rejected
C6_Witness ==
  /\ last.op = "bridge"
  /\ last.srcb
  /\ last.found
  /\ ~last.dstb
  /\ last.kind = "Err"

\* C7, as the specification states it: extrude on an arc with a face hands
\* back an error and leaves the graph as it was
C7_ExtrudeRejected ==
  (last.op = "extrude" /\ ~last.srcb) => (last.kind = "Err" /\ graph = prev)

\* C8: a split of an arc in storage succeeds, and with it the graph has one
\* vertex more, two arcs more and as many faces as before
C8_SplitCounts ==
  (last.op = "split") =>
     /\ last.kind = "Ok"
     /\ vertex_count(graph) = vertex_count(prev) + 1
     /\ arc_count(graph) = arc_count(prev) + 2
     /\ face_count(graph) = face_count(prev)

\* C8 witness: a boundary arc of a graph with a face was split
C8_Witness == Succeeded("split") /\ last.srcb /\ face_count(graph) > 0

\* the faces on the two sides of the edge of ab
FacesAt(G, ab) == {G.arcs[ab].face, G.arcs[<<ab[2], ab[1]>>].face} \ {NoFace}

\* the arcs of a ring once the arcs of the split edge ab are replaced by
\* their halves around m
SplitArcs(S, ab, m) ==
  (S \ {ab, <<ab[2], ab[1]>>})
    \cup (IF ab \in S THEN {<<ab[1], m>>, <<m, ab[2]>>} ELSE {})
    \cup (IF <<ab[2], ab[1]>> \in S THEN {<<ab[2], m>>, <<m, ab[1]>>} ELSE {})

\* C9: the split of A->B hands back the vertex M; M leads with M->B, which
\* follows A->M in the ring the arc was in; B->M and M->A take the place of
\* B->A in its ring on the other side; each face at the edge has one arc more
\* and no other face has
C9_SplitRing ==
  Succeeded("split") =>
    LET a == last.src[1]
        b == last.src[2]
        m == last.vertex
    IN  /\ m \in DOMAIN graph.vertices /\ m \notin DOMAIN prev.vertices
        /\ graph.vertices[m].arc = <<m, b>>
        /\ DOMAIN graph.arcs = SplitArcs(DOMAIN prev.arcs, <<a, b>>, m)
        /\ graph.arcs[<<a, m>>].next = <<m, b>>
        /\ SeqToSet(interior_arcs(graph, <<a, m>>)) =
             SplitArcs(SeqToSet(interior_arcs(prev, <<a, b>>)), <<a, b>>, m)
        /\ graph.arcs[<<a, m>>].face = prev.arcs[<<a, b>>].face
        /\ graph.arcs[<<m, b>>].face = prev.arcs[<<a, b>>].face
        /\ graph.arcs[<<b, m>>].next = <<m, a>>
        /\ SeqToSet(interior_arcs(graph, <<b, m>>)) =
             SplitArcs(SeqToSet(interior_arcs(prev, <<b, a>>)), <<a, b>>, m)
        /\ graph.arcs[<<b, m>>].face = prev.arcs[<<b, a>>].face
        /\ graph.arcs[<<m, a>>].face = prev.arcs[<<b, a>>].face
        /\ DOMAIN graph.faces = DOMAIN prev.faces
        /\ \A f \in DOMAIN prev.faces :
             face_arity(graph, f) =
               face_arity(prev, f) + (IF f \in FacesAt(prev, <<a, b>>) THEN 1 ELSE 0)

\* C9 witness: the split edge had a face on each side
C9_Witness ==
  /\ Succeeded("split")
  /\ Cardinality(FacesAt(graph, <<last.src[1], last.vertex>>)) = 2

\* the connecting sides of the bridge of ab and cd that G does not have
MissingSides(G, ab, cd) == {<<ab[2], cd[1]>>, <<cd[2], ab[1]>>} \ (DOMAIN G.arcs)

\* C10: a bridge of A->B and C->D that succeeds inserts one face, the face
\* is the quadrilateral A, B, C, D, and two arcs and one edge come with each
\* connecting side that was not there; nothing else comes or goes
C10_BridgeQuad ==
  Succeeded("bridge") =>
    LET ab == last.src
        cd == last.dst
        f  == last.face
        n  == Cardinality(MissingSides(prev, ab, cd))
    IN  /\ DOMAIN graph.faces = (DOMAIN prev.faces) \cup {f}
        /\ f \notin DOMAIN prev.faces
        /\ face_arity(graph, f) = 4
        /\ interior_arcs(graph, ab) = Perimeter(ab \o cd)
        /\ \A i \in 1..4 : graph.arcs[Perimeter(ab \o cd)[i]].face = f
        /\ DOMAIN graph.arcs =
             (DOMAIN prev.arcs)
               \cup MissingSides(prev, ab, cd)
               \cup {<<s[2], s[1]>> : s \in MissingSides(prev, ab, cd)}
        /\ arc_count(graph) = arc_count(prev) + 2 * n
        /\ edge_count(graph) = edge_count(prev) + n
        /\ vertex_count(graph) = vertex_count(prev)

\* C10 witness: arcs of two faces that share no vertex were bridged, which
\* brought four arcs and one face
C10_Witness ==
  /\ Succeeded("bridge")
  /\ arc_count(graph) = arc_count(prev) + 4
  /\ face_count(graph) = face_count(prev) + 1

\* C11: a bridge by index n goes to the n-th arc after the source in the ring
\* of the source; an index the ring has no arc for is answered with
\* TopologyNotFound and the graph is left as it was; a bridge by key goes to
\* the arc of the key, whatever the ring of the source is
C11_BridgeSelector ==
  (last.op = "bridge") =>
     /\ last.over => (last.kind = "Err" /\ last.err = "TopologyNotFound" /\ graph = prev)
     /\ (last.kind = "Ok" /\ last.by = "index") =>
          last.dst = NthNext(prev, last.src, last.index)
     /\ (last.kind = "Ok" /\ last.by = "key") => last.dst = last.key

\* C11 witness: an index past the end of the ring of a boundary arc was given
C11_Witness ==
  /\ last.op = "bridge"
  /\ last.over
  /\ last.srcb
  /\ last.err = "TopologyNotFound"
  /\ face_count(graph) > 0

\* C12: an extrusion that succeeds brings two vertices, the edge between
\* them, the two connecting edges (six arcs in all) and one face; the face
\* is the quadrilateral over the initiating arc and the arc handed back,
\* which is an arc of the new edge and lies in the ring of the initiating arc;
\* nothing that was there goes
C12_ExtrudeQuad ==
  Succeeded("extrude") =>
    LET ab == last.src
        cd == last.arc
    IN  /\ vertex_count(graph) = vertex_count(prev) + 2
        /\ {cd[1], cd[2]} \subseteq (DOMAIN graph.vertices) \ (DOMAIN prev.vertices)
        /\ cd[1] # cd[2]
        /\ arc_count(graph) = arc_count(prev) + 6
        /\ edge_count(graph) = edge_count(prev) + 3
        /\ face_count(graph) = face_count(prev) + 1
        /\ DOMAIN prev.arcs \subseteq DOMAIN graph.arcs
        /\ DOMAIN prev.faces \subseteq DOMAIN graph.faces
        /\ cd \in DOMAIN graph.arcs
        /\ graph.arcs[cd].edge \in (DOMAIN graph.edges) \ (DOMAIN prev.edges)
        /\ graph.arcs[<<cd[2], cd[1]>>].edge = graph.arcs[cd].edge
        /\ interior_arcs(graph, ab) = Perimeter(ab \o cd)
        /\ graph.arcs[ab].face \in (DOMAIN graph.faces) \ (DOMAIN prev.faces)
        /\ \A i \in 1..4 : graph.arcs[Perimeter(ab \o cd)[i]].face = graph.arcs[ab].face

\* C12 witness: a boundary arc of a single quadrilateral was extruded, and
\* the graph went from 8 arcs and 1 face to 14 arcs and 2 faces
C12_Witness ==
  /\ Succeeded("extrude")
  /\ arc_count(prev) = 8 /\ face_count(prev) = 1
  /\ arc_count(graph) = 14 /\ face_count(graph) = 2

\* the vertex has no arc left, neither going out nor coming in
Disjoint(G, v) == \A ab \in DOMAIN G.arcs : ab[1] # v /\ ab[2] # v

\* C13, as the specification states it: remove hands back an endpoint that
\* is still there, and hands back none only when both endpoints are gone
C13_RemoveNoneOnlyIfBoth ==
  Succeeded("remove") =>
     /\ last.vertex # NoVertex =>
          (last.vertex \in {last.src[1], last.src[2]} /\ last.vertex \in DOMAIN graph.vertices)
     /\ last.vertex = NoVertex =>
          (last.src[1] \notin DOMAIN graph.vertices /\ last.src[2] \notin DOMAIN graph.vertices)

\* C13, amended: remove of A->B hands back A when A is still there; it hands
\* back none only when A has no arc left and is gone, whether or not B is
\* still there, and so it does when both endpoints are gone
C13_RemoveNoneOnlyIfSourceGone ==
  Succeeded("remove") =>
     /\ last.vertex # NoVertex =>
          (last.vertex = last.src[1] /\ last.vertex \in DOMAIN graph.vertices)
     /\ last.vertex = NoVertex =>
          (last.src[1] \notin DOMAIN graph.vertices /\ Disjoint(graph, last.src[1]))
     /\ (last.src[1] \notin DOMAIN graph.vertices /\ last.src[2] \notin DOMAIN graph.vertices)
          => last.vertex = NoVertex

\* C13 witness: the source of the removed arc went, the destination stayed,
\* and no vertex was handed back
C13_Witness ==
  /\ Succeeded("remove")
  /\ last.vertex = NoVertex
  /\ last.src[2] \in DOMAIN graph.vertices
  /\ ~Disjoint(graph, last.src[2])

\* C14: remove of A->B hands back the vertex A exactly when A is in storage
\* after the removal, which is exactly when A has an arc left, and hands back
\* none exactly when A is gone
C14_RemoveSourceView ==
  Succeeded("remove") =>
     /\ last.vertex = last.src[1] <=> last.src[1] \in DOMAIN graph.vertices
     /\ last.vertex = NoVertex <=> last.src[1] \notin DOMAIN graph.vertices
     /\ last.src[1] \in DOMAIN graph.vertices <=> ~Disjoint(graph, last.src[1])
     /\ last.src[1] \in DOMAIN prev.vertices

\* C14 witness: the source vertex was handed back after the removal took a
\* face with it
C14_Witness ==
  /\ Succeeded("remove")
  /\ last.vertex = last.src[1]
  /\ last.vertex \in DOMAIN graph.vertices
  /\ face_count(graph) < face_count(prev)

\* C15: a removal takes out of storage the two arcs of the edge, the edge,
\* the faces of the two arcs and each endpoint that has no arc left, and
\* nothing else
C15_RemoveFrame ==
  Succeeded("remove") =>
    LET ab == last.src
        ba == <<last.src[2], last.src[1]>>
    IN  /\ {ab, ba} \subseteq DOMAIN prev.arcs
        /\ DOMAIN graph.arcs = (DOMAIN prev.arcs) \ {ab, ba}
        /\ arc_count(graph) = arc_count(prev) - 2
        /\ prev.arcs[ab].edge \in DOMAIN prev.edges
        /\ prev.arcs[ba].edge = prev.arcs[ab].edge
        /\ DOMAIN graph.edges = (DOMAIN prev.edges) \ {prev.arcs[ab].edge}
        /\ edge_count(graph) = edge_count(prev) - 1
        /\ DOMAIN graph.faces = (DOMAIN prev.faces) \ FacesAt(prev, ab)
        /\ DOMAIN graph.vertices =
             (DOMAIN prev.vertices) \ {v \in {ab[1], ab[2]} : Disjoint(graph, v)}

\* C15 witness: the removal took one endpoint and left arcs behind
C15_Witness ==
  /\ Succeeded("remove")
  /\ vertex_count(graph) = vertex_count(prev) - 1
  /\ arc_count(graph) > 0

\* the arcs left of the two rings of the edge of ab once the edge is gone
MergedRing(G, ab) ==
  (SeqToSet(interior_arcs(G, ab)) \cup SeqToSet(interior_arcs(G, <<ab[2], ab[1]>>)))
    \ {ab, <<ab[2], ab[1]>>}

\* C16: when the two arcs of the removed edge were in two rings, of n1 and
\* n2 arcs, the arcs left of the two form one closed ring of n1 + n2 - 2
\* arcs, all of them boundary arcs
C16_RemoveMergesRings ==
  (Succeeded("remove")
     /\ <<last.src[2], last.src[1]>> \notin SeqToSet(interior_arcs(prev, last.src))) =>
    LET n == ring_arity(prev, last.src) + ring_arity(prev, <<last.src[2], last.src[1]>>) - 2
    IN  /\ Cardinality(MergedRing(prev, last.src)) = n
        /\ \A x \in MergedRing(prev, last.src) :
             /\ x \in DOMAIN graph.arcs
             /\ is_boundary_arc(graph, x)
             /\ ring_arity(graph, x) = n
             /\ SeqToSet(interior_arcs(graph, x)) = MergedRing(prev, last.src)
             /\ NthNext(graph, x, n) = x

\* C16 witness: the edge between two quadrilaterals was removed, no face is
\* left and the vertex handed back leads into a ring of 6 arcs
C16_Witness ==
  /\ Succeeded("remove")
  /\ ring_arity(prev, last.src) = 4
  /\ ring_arity(prev, <<last.src[2], last.src[1]>>) = 4
  /\ face_count(prev) = 2
  /\ face_count(graph) = 0
  /\ last.vertex # NoVertex
  /\ ring_arity(graph, graph.vertices[last.vertex].arc) = 6

\* C17: when triangulate has returned, every face of the graph has arity 3
C17_TriangulateAllTriangles ==
  Succeeded("triangulate") => \A f \in DOMAIN graph.faces : face_arity(graph, f) = 3

\* C17 witness: a face of five sides was triangulated into three faces
C17_Witness ==
  /\ Succeeded("triangulate")
  /\ \E f \in DOMAIN prev.faces : face_arity(prev, f) = 5
  /\ face_count(graph) = face_count(prev) + 2

\* the four counts of a graph
Counts(G) == <<vertex_count(G), arc_count(G), edge_count(G), face_count(G)>>

AllTriangles(G) == \A f \in DOMAIN G.faces : face_arity(G, f) = 3

\* C18: triangulate on a graph whose faces are all triangles returns and
\* leaves the counts of vertices, arcs, edges and faces as they were; and a
\* second triangulate after any triangulate leaves the counts of the first
C18_TriangulateTriangles ==
  (last.op = "triangulate") =>
     /\ AllTriangles(prev) => (last.kind = "Ok" /\ Counts(graph) = Counts(prev))
     /\ last.kind = "Ok" =>
          (triangulate(graph).kind = "Ok" /\ Counts(triangulate(graph).g) = Counts(graph))

\* C18 witness: a graph of two triangles was triangulated
C18_Witness ==
  /\ Succeeded("triangulate")
  /\ AllTriangles(prev)
  /\ face_count(prev) = 2
  /\ Counts(graph) = Counts(prev)

\* C19, as the specification states it: arity is Uniform(n) when every face
\* has arity n, however many faces there are, NonUniform(min, max) only when
\* two faces differ in arity, and Uniform(0) when there is no face
C19_ArityClassifies ==
  Exposed =>
     /\ face_count(graph) = 0 => arity(graph) = Uniform(0)
     /\ \A n \in 0..arc_count(graph) :
          (face_count(graph) >= 1 /\ \A f \in DOMAIN graph.faces : face_arity(graph, f) = n)
            => arity(graph) = Uniform(n)
     /\ arity(graph).kind = "NonUniform" =>
          \E f, g \in DOMAIN graph.faces : face_arity(graph, f) # face_arity(graph, g)

\* the chunks of an index buffer: how many there are, whether the k-th is
\* shorter than the arity, and whether it holds an index past the vertices
NumChunks(in) == (Len(in.indices) + in.arity - 1) \div in.arity

Short(in, k) == k * in.arity > Len(in.indices)

OutOfRange(in, k) ==
  \E i \in ((k - 1) * in.arity + 1)..Min(k * in.arity, Len(in.indices)) :
    in.indices[i] >= in.nverts

\* C20: a construction with an arity below 3 fails with ArityNonPolygonal
\* and nothing was inserted; otherwise the faces are taken in the order of
\* the buffer and the first face that cannot go in decides the error:
\* ArityConflict with the arity and the length of the chunk when the chunk is
\* short, TopologyNotFound when an index is past the vertex buffer; a buffer
\* with such a face never yields a graph, and no error yields one
C20_BuildErrors ==
  (last.op = "build") =>
    LET in == Inputs[last.input]
        k  == face_count(graph) + 1
    IN  /\ last.kind = "Err" => (status = "err" /\ last.err \in GraphErrors)
        /\ in.arity < 3 =>
             (last.kind = "Err" /\ last.err = "ArityNonPolygonal" /\ graph = NewGraph)
        /\ (in.arity >= 3 /\ \E j \in 1..NumChunks(in) : Short(in, j) \/ OutOfRange(in, j))
             => last.kind = "Err"
        /\ (in.arity >= 3 /\ last.kind = "Err") =>
             /\ k <= NumChunks(in)
             /\ \A j \in 1..(k - 1) : ~Short(in, j) /\ ~OutOfRange(in, j)
             /\ Short(in, k) =>
                  /\ last.err = "ArityConflict"
                  /\ last.expected = in.arity
                  /\ last.actual = Len(in.indices) - (k - 1) * in.arity
             /\ (~Short(in, k) /\ OutOfRange(in, k)) => last.err = "TopologyNotFound"
             /\ (~Short(in, k) /\ ~OutOfRange(in, k)) =>
                  last.err \in {"TopologyConflict", "TopologyMalformed"}

\* C20 witness: the second face has an index past the vertex buffer and the
\* chunk after it is short; the error is that of the second face
C20_Witness ==
  /\ last.op = "build"
  /\ last.err = "TopologyNotFound"
  /\ face_count(graph) = 1
  /\ Short(Inputs[last.input], NumChunks(Inputs[last.input]))

\* s is t, turned round
IsRotation(s, t) ==
  /\ Len(s) = Len(t)
  /\ \E r \in 0..(Len(t) - 1) : \A i \in 1..Len(t) : s[i] = t[((i - 1 + r) % Len(t)) + 1]

\* the index buffer describes faces that can all go in: whole chunks, indices
\* within the vertices, no vertex twice in a face and no arc in two faces
Manifold(in) ==
  /\ in.arity >= 3
  /\ Len(in.indices) % in.arity = 0
  /\ \A i \in 1..Len(in.indices) : in.indices[i] < in.nverts
  /\ \A k \in 1..NumChunks(in) :
       Cardinality(SeqToSet(Chunk(in.indices, in.arity, k))) = in.arity
  /\ \A j, k \in 1..NumChunks(in) :
       j # k => SeqToSet(Perimeter(Chunk(in.indices, in.arity, j)))
                  \cap SeqToSet(Perimeter(Chunk(in.indices, in.arity, k))) = {}

\* the polygons can all go in: indices within the vertices, no vertex twice
\* in a polygon and no arc in two polygons
ManifoldFaces(in) ==
  /\ \A k \in 1..Len(in.faces) :
       /\ \A i \in 1..Len(in.faces[k]) : in.faces[k][i] < Len(in.vertices)
       /\ Cardinality(SeqToSet(in.faces[k])) = Len(in.faces[k])
  /\ \A j, k \in 1..Len(in.faces) :
       j # k => SeqToSet(Perimeter(in.faces[j])) \cap SeqToSet(Perimeter(in.faces[k])) = {}

\* a construction from manifold polygons succeeds, and the graph has a
\* vertex for each position of the buffer, with that position, and for each
\* polygon a face with the same vertices in the same cyclic order
RoundTripPolygons(in) ==
  /\ ManifoldFaces(in) => last.kind = "Ok"
  /\ last.kind = "Ok" =>
       /\ vertex_count(graph) = Len(in.vertices)
       /\ \A v \in DOMAIN graph.vertices : graph.vertices[v].geometry = in.vertices[v + 1]
       /\ face_count(graph) = Len(in.faces)
       /\ \A k \in 1..Len(in.faces) :
            \E f \in DOMAIN graph.faces : IsRotation(face_vertices(graph, f), in.faces[k])

\* C21: a construction from a manifold buffer succeeds, and the graph read
\* back has the vertices and the faces of the buffer: as many vertices, as
\* many faces, and for each face of the buffer a face of the graph, and a
\* chunk of the buffer read back, with the same vertices in the same cyclic
\* order; so it is for a buffer of polygons, each of its own arity
C21_RoundTrip ==
  /\ (last.op = "from_raw_buffers") => RoundTripPolygons(RawInputs[last.input])
  /\ (last.op = "build") =>
    LET in == Inputs[last.input]
    IN  /\ Manifold(in) => last.kind = "Ok"
        /\ last.kind = "Ok" =>
             LET buf == to_mesh_buffer_by_vertex_with(graph, in.arity)
             IN  /\ vertex_count(graph) = in.nverts
                 /\ face_count(graph) = NumChunks(in)
                 /\ buf.ok
                 /\ buf.nverts = in.nverts
                 /\ Len(buf.indices) = Len(in.indices)
                 /\ \A k \in 1..NumChunks(in) :
                      /\ \E f \in DOMAIN graph.faces :
                           IsRotation(face_vertices(graph, f), Chunk(in.indices, in.arity, k))
                      /\ \E j \in 1..NumChunks(in) :
                           IsRotation(Chunk(buf.indices, in.arity, j),
                                      Chunk(in.indices, in.arity, k))

\* C21 witness: two quadrilaterals with a common edge were built and read back
C21_Witness ==
  /\ last.op = "build"
  /\ last.kind = "Ok"
  /\ Manifold(Inputs[last.input])
  /\ face_count(graph) = 2
  /\ Len(to_mesh_buffer_by_vertex_with(graph, 4).indices) = 8

(* ------------------------------ lookups -------------------------------- *)
\* an Option<view> is the sequence of no view or of one; a view is known by
\* its key, which key() hands back
\* MeshGraph::vertex and MeshGraph::vertex_mut
vertex(G, key) == IF key \in DOMAIN G.vertices THEN <<key>> ELSE <<>>

\* MeshGraph::arc and MeshGraph::arc_mut
arc(G, key) == IF key \in DOMAIN G.arcs THEN <<key>> ELSE <<>>

\* MeshGraph::edge and MeshGraph::edge_mut
edge(G, key) == IF key \in DOMAIN G.edges THEN <<key>> ELSE <<>>

\* MeshGraph::face and MeshGraph::face_mut
face(G, key) == IF key \in DOMAIN G.faces THEN <<key>> ELSE <<>>

\* the keys issued so far and one more of each kind
VertexKeys(G) == 0..G.vseq

ArcKeys(G) == VertexKeys(G) \X VertexKeys(G)

\* C23: a lookup by key gives no view exactly when the key is not in the
\* storage of its kind, and the view it gives has the key asked for; after a
\* successful remove the keys of the two arcs of the edge, of the edge, of
\* the faces the arcs had and of a vertex that went give no view
C23_LookupByKey ==
  /\ Exposed =>
       /\ \A k \in VertexKeys(graph) :
             /\ (vertex(graph, k) = <<>>) <=> (k \notin DOMAIN graph.vertices)
             /\ vertex(graph, k) \in {<<>>, <<k>>}
       /\ \A k \in ArcKeys(graph) :
             /\ (arc(graph, k) = <<>>) <=> (k \notin DOMAIN graph.arcs)
             /\ arc(graph, k) \in {<<>>, <<k>>}
       /\ \A k \in 0..graph.eseq :
             /\ (edge(graph, k) = <<>>) <=> (k \notin DOMAIN graph.edges)
             /\ edge(graph, k) \in {<<>>, <<k>>}
       /\ \A k \in 0..graph.fseq :
             /\ (face(graph, k) = <<>>) <=> (k \notin DOMAIN graph.faces)
             /\ face(graph, k) \in {<<>>, <<k>>}
  /\ Succeeded("remove") =>
       /\ arc(graph, last.src) = <<>>
       /\ arc(graph, into_opposite(last.src)) = <<>>
       /\ edge(graph, prev.arcs[last.src].edge) = <<>>
       /\ \A f \in FacesAt(prev, last.src) : face(graph, f) = <<>>
       /\ \A v \in {last.src[1], last.src[2]} :
             (\A ab \in DOMAIN graph.arcs : ab[1] # v) => vertex(graph, v) = <<>>

\* an edge was removed, and one of its ends went with it
C23_Witness ==
  /\ Succeeded("remove")
  /\ edge(prev, prev.arcs[last.src].edge) # <<>>
  /\ \E v \in {last.src[1], last.src[2]} :
        v \in DOMAIN prev.vertices /\ vertex(graph, v) = <<>>
  /\ arc(prev, last.src) = <<last.src>>
  /\ arc(graph, last.src) = <<>>

\* the keys of the kind issued so far, given the next key of the kind
Issued(seq) == 0..(seq - 1)

\* C24: no step to a graph handed back by a construction or left by an edit
\* gives a vertex or a face a key that was issued before the step, whether
\* the key is still in storage or not; every key in storage was issued, and
\* the keys issued before the step are still issued after it
C24_KeysNeverReused ==
  [][(status' = "ok") =>
       /\ DOMAIN graph'.vertices \subseteq Issued(graph'.vseq)
       /\ DOMAIN graph'.faces \subseteq Issued(graph'.fseq)
       /\ Issued(graph.vseq) \subseteq Issued(graph'.vseq)
       /\ Issued(graph.fseq) \subseteq Issued(graph'.fseq)
       /\ (DOMAIN graph'.vertices \ DOMAIN graph.vertices) \cap Issued(graph.vseq) = {}
       /\ (DOMAIN graph'.faces \ DOMAIN graph.faces) \cap Issued(graph.fseq) = {}]_vars

\* an extrude after a remove: the key of a face that went was not in storage
\* when the extrude inserted its two vertices and its face
C24_Witness ==
  /\ Succeeded("extrude")
  /\ Issued(prev.fseq) \ DOMAIN prev.faces # {}
  /\ DOMAIN graph.faces \ DOMAIN prev.faces # {}
  /\ DOMAIN graph.vertices \ DOMAIN prev.vertices # {}

(* ---------------------------- boundary arc ----------------------------- *)
\* ArcView::boundary_arc
boundary_arc(G, ab) == reachable_boundary_arc(G, ab)

\* ArcView::into_boundary_arc
into_boundary_arc(G, ab) == reachable_boundary_arc(G, ab)

\* C25, as the specification states it: boundary_arc and into_boundary_arc
\* give the arc they are called on when it has no face, and no arc otherwise
C25_BoundaryArcSelf ==
  (status = "ok") =>
    \A ab \in DOMAIN graph.arcs :
      /\ boundary_arc(graph, ab) = IF is_boundary_arc(graph, ab) THEN ab ELSE NoArc
      /\ into_boundary_arc(graph, ab) = IF is_boundary_arc(graph, ab) THEN ab ELSE NoArc

(* ------------------------- endpoint circulator ------------------------- *)
\* VertexCirculator::from(arc): the keys of the source and the destination
VertexCirculator_from(ab) == <<ab[1], ab[2]>>

\* Iterator::next of the circulator `inner` over G: the view of the first key
\* left, and the circulator without it
VertexCirculator_next(G, inner) ==
  IF inner = <<>> THEN [item |-> <<>>, inner |-> <<>>]
  ELSE [item |-> vertex(G, Head(inner)), inner |-> Tail(inner)]

\* Iterator::size_hint: the lower bound and the upper bound
VertexCirculator_size_hint(inner) == <<0, Len(inner)>>

\* ArcView::vertices
vertices(ab) == VertexCirculator_from(ab)

\* the circulator after n calls of next
RECURSIVE AfterNext(_, _, _)
AfterNext(G, inner, n) ==
  IF n = 0 THEN inner ELSE AfterNext(G, VertexCirculator_next(G, inner).inner, n - 1)

\* C26, as the specification states it: the circulator of the endpoints of
\* an arc gives the source, then the destination, then nothing, and before
\* and after each of them both of its size bounds are the number of items it
\* has still to give
C26_EndpointsExactSize ==
  (status = "ok") =>
    \A ab \in DOMAIN graph.arcs :
      /\ VertexCirculator_next(graph, AfterNext(graph, vertices(ab), 0)).item = <<ab[1]>>
      /\ VertexCirculator_next(graph, AfterNext(graph, vertices(ab), 1)).item = <<ab[2]>>
      /\ VertexCirculator_next(graph, AfterNext(graph, vertices(ab), 2)).item = <<>>
      /\ \A n \in 0..2 :
            VertexCirculator_size_hint(AfterNext(graph, vertices(ab), n)) = <<2 - n, 2 - n>>

\* following next from the arc cur comes to the arc ab within n steps
RECURSIVE ComesBack(_, _, _, _)
ComesBack(G, ab, cur, n) ==
  IF n = 0 \/ cur \notin DOMAIN G.arcs THEN FALSE
  ELSE IF G.arcs[cur].next = ab THEN TRUE
  ELSE ComesBack(G, ab, G.arcs[cur].next, n - 1)

\* C27: in a graph handed back by a construction or left by an edit, every
\* arc, with or without a face, has a next and a previous arc in storage,
\* each the other's inverse, and following next from the arc comes back to
\* it within as many steps as there are arcs
C27_RingsClosed ==
  (status = "ok") =>
    \A ab \in DOMAIN graph.arcs :
      /\ reachable_next_arc(graph, ab) # NoArc
      /\ reachable_previous_arc(graph, ab) # NoArc
      /\ graph.arcs[graph.arcs[ab].next].previous = ab
      /\ graph.arcs[graph.arcs[ab].previous].next = ab
      /\ ComesBack(graph, ab, ab, arc_count(graph))

\* an edge was removed from between two faces and left boundary arcs, whose
\* ring of more than three arcs is closed
C27_Witness ==
  /\ Succeeded("remove")
  /\ Cardinality(FacesAt(prev, last.src)) = 2
  /\ \E ab \in DOMAIN graph.arcs :
        /\ is_boundary_arc(graph, ab)
        /\ ~is_boundary_arc(prev, ab)
        /\ ring_arity(graph, ab) > 3
        /\ NthNext(graph, ab, ring_arity(graph, ab)) = ab

\* the links of a graph without the geometry of its payloads
Topology(G) ==
  [vertices |-> [v \in DOMAIN G.vertices |-> G.vertices[v].arc],
   arcs |-> [ab \in DOMAIN G.arcs |->
               <<G.arcs[ab].next, G.arcs[ab].previous, G.arcs[ab].face, G.arcs[ab].edge>>],
   edges |-> [e \in DOMAIN G.edges |-> G.edges[e].arc],
   faces |-> [f \in DOMAIN G.faces |-> G.faces[f].arc],
   seqs |-> <<G.vseq, G.eseq, G.fseq>>]

\* the storage of a kind and the orphan views its iteration yields
StorageOf(G, elem) ==
  CASE elem = "vertices" -> G.vertices
    [] elem = "arcs" -> G.arcs
    [] elem = "edges" -> G.edges
    [] elem = "faces" -> G.faces

OrphansOf(G, elem) ==
  CASE elem = "vertices" -> orphan_vertices(G)
    [] elem = "arcs" -> orphan_arcs(G)
    [] elem = "edges" -> orphan_edges(G)
    [] elem = "faces" -> orphan_faces(G)

\* what the immutable view of the key reads, when there is one
ReadGeometry(G, elem, key) ==
  CASE elem = "vertices" -> [x \in DOMAIN vertex(G, key) |-> G.vertices[key].geometry]
    [] elem = "arcs" -> [x \in DOMAIN arc(G, key) |-> G.arcs[key].geometry]
    [] elem = "edges" -> [x \in DOMAIN edge(G, key) |-> G.edges[key].geometry]
    [] elem = "faces" -> [x \in DOMAIN face(G, key) |-> G.faces[key].geometry]

\* C29: the iteration over the orphan views of a storage yields as many
\* views as the storage has elements, one for each key and no key twice; once
\* a value is written through each of them, the immutable view of each key
\* of the storage reads the value, and the keys, the counts, the links of
\* next, previous, face, edge and leading arc and the other storages are
\* as they were
C29_OrphanWrites ==
  (status = "written") =>
    /\ \A e \in ElementKinds : \A views \in {OrphansOf(prev, e)} :
          /\ Len(views) = Cardinality(DOMAIN StorageOf(prev, e))
          /\ {views[i].key : i \in 1..Len(views)} = DOMAIN StorageOf(prev, e)
          /\ \A i, j \in 1..Len(views) : views[i].key = views[j].key => i = j
    /\ \A key \in DOMAIN StorageOf(prev, last.elem) :
          ReadGeometry(graph, last.elem, key) = <<last.value>>
    /\ Topology(graph) = Topology(prev)
    /\ Counts(graph) = Counts(prev)
    /\ \A e \in ElementKinds \ {last.elem} : StorageOf(graph, e) = StorageOf(prev, e)

\* a value was written through the orphan views of two faces or more, and
\* each face reads it while the vertices read what they read before
C29_Witness ==
  /\ status = "written"
  /\ last.elem = "faces"
  /\ face_count(prev) >= 2
  /\ \A f \in DOMAIN graph.faces :
        graph.faces[f].geometry = last.value /\ prev.faces[f].geometry # last.value
  /\ \A v \in DOMAIN graph.vertices : graph.vertices[v].geometry # last.value

\* the ring of the face f of G visits no vertex twice
DistinctVertices(G, f) ==
  Cardinality(SeqToSet(face_vertices(G, f))) = Len(face_vertices(G, f))

reachable_edge(G, ab) ==
  IF G.arcs[ab].edge # NoEdge /\ G.arcs[ab].edge \in DOMAIN G.edges
  THEN G.arcs[ab].edge ELSE NoEdge

\* EdgeView::reachable_arc: the arc of the edge, when it is in storage
reachable_arc(G, e) == rebind_arc(G, G.edges[e].arc)

\* C31: in a graph handed back by a construction or left by an edit, each
\* arc has an edge that is in storage, its opposite arc has the same edge,
\* the arc of that edge is one of the two, no other arc has the edge (the
\* arcs have half as many edges as there are arcs), every edge in storage is
\* the edge of its arc, and there are twice as many arcs as edges
C31_EdgePairs ==
  Exposed =>
    /\ \A ab \in DOMAIN graph.arcs :
          /\ reachable_edge(graph, ab) # NoEdge
          /\ reachable_opposite_arc(graph, ab) # NoArc
          /\ reachable_edge(graph, into_opposite(ab)) = reachable_edge(graph, ab)
          /\ reachable_arc(graph, reachable_edge(graph, ab)) \in {ab, into_opposite(ab)}
    /\ \A e \in DOMAIN graph.edges :
          /\ reachable_arc(graph, e) # NoArc
          /\ reachable_edge(graph, reachable_arc(graph, e)) = e
    /\ 2 * Cardinality({reachable_edge(graph, ab) : ab \in DOMAIN graph.arcs}) = arc_count(graph)
    /\ arc_count(graph) = 2 * edge_count(graph)

\* an edge between two faces was split: its edge went, and the four arcs
\* around the new vertex have two edges that were not there before
C31_Witness ==
  /\ Succeeded("split")
  /\ Cardinality(FacesAt(prev, last.src)) = 2
  /\ reachable_edge(prev, last.src) \notin DOMAIN graph.edges
  /\ edge_count(graph) = edge_count(prev) + 1
  /\ reachable_edge(graph, <<last.src[1], last.vertex>>) \notin DOMAIN prev.edges
  /\ reachable_edge(graph, <<last.vertex, last.src[2]>>) \notin DOMAIN prev.edges
  /\ reachable_edge(graph, <<last.src[1], last.vertex>>)
       # reachable_edge(graph, <<last.vertex, last.src[2]>>)

\* the faces that splitting a face of n sides into triangles inserts
Inserted(n) == IF n > 3 THEN 2 * (n - 3) ELSE 0

RECURSIVE SumInserted(_, _)
SumInserted(G, S) ==
  IF S = {} THEN 0
  ELSE Inserted(face_arity(G, CHOOSE f \in S : TRUE))
         + SumInserted(G, S \ {CHOOSE f \in S : TRUE})

\* C32: the lookup of a collected face key never fails in triangulate, and
\* a triangulate that returns has visited as many faces as the graph had
\* when it was called: each face of more than three sides that the graph had
\* is gone, each triangle it had is as it was, the faces that were inserted
\* are triangles with keys issued during the call, and as many were inserted
\* as the faces of the graph before need
C32_TriangulateSnapshot ==
  /\ (last.op = "triangulate") => last.err # "unwrap"
  /\ Succeeded("triangulate") =>
    /\ last.actual = face_count(prev)
    /\ \A f \in DOMAIN prev.faces :
          IF face_arity(prev, f) > 3 THEN f \notin DOMAIN graph.faces
          ELSE f \in DOMAIN graph.faces /\ face_vertices(graph, f) = face_vertices(prev, f)
    /\ \A f \in DOMAIN graph.faces \ DOMAIN prev.faces :
          f >= prev.fseq /\ face_arity(graph, f) = 3
    /\ graph.fseq - prev.fseq = SumInserted(prev, DOMAIN prev.faces)

\* a graph of two faces, one of them of more than three sides, was
\* triangulated: two faces were visited and more than two are there
C32_Witness ==
  /\ Succeeded("triangulate")
  /\ face_count(prev) = 2
  /\ \E f \in DOMAIN prev.faces : face_arity(prev, f) > 3
  /\ last.actual = 2
  /\ face_count(graph) > 2

\* no position twice in a polygon and no arc in two polygons
ManifoldPolygons(polys) ==
  /\ \A p \in 1..Len(polys) : Cardinality(SeqToSet(polys[p])) = Len(polys[p])
  /\ \A p, q \in 1..Len(polys) :
       p # q => SeqToSet(Perimeter(polys[p])) \cap SeqToSet(Perimeter(polys[q])) = {}

\* C33: collecting polygons hands back a graph; when a face could not go
\* in, it is the graph without vertices, arcs, edges and faces; when the
\* polygons are manifold, it has a vertex for each position, with that
\* position, a face for each polygon and an arc for each side; six triangles over five positions give
\* five vertices, eighteen arcs and six faces
C33_CollectAllOrNothing ==
  (last.op = "collect") =>
    /\ status = "ok"
    /\ (last.err # "") <=> ~ManifoldPolygons(Polygons[last.input])
    /\ (last.err # "") => Counts(graph) = <<0, 0, 0, 0>> /\ graph = NewGraph
    /\ (last.err = "") =>
          /\ vertex_count(graph) = Cardinality(SeqToSet(Flatten(Polygons[last.input])))
          /\ {graph.vertices[v].geometry : v \in DOMAIN graph.vertices}
               = SeqToSet(Flatten(Polygons[last.input]))
          /\ face_count(graph) = Len(Polygons[last.input])
          /\ \A p \in 1..Len(Polygons[last.input]) : \E f \in DOMAIN graph.faces :
                face_arity(graph, f) = Len(Polygons[last.input][p])
    /\ (last.input = 1) =>
          vertex_count(graph) = 5 /\ arc_count(graph) = 18 /\ face_count(graph) = 6

\* the six triangles over five positions were collected
C33_Witness ==
  /\ last.op = "collect"
  /\ last.input = 1
  /\ Counts(graph) = <<5, 18, 9, 6>>

(* ------------------------- arcs into a vertex -------------------------- *)
\* the arcs into the vertex v
Incoming(G, v) == {ab \in DOMAIN G.arcs : ab[2] = v}

NoRepeat(s) == Cardinality(SeqToSet(s)) = Len(s)

\* one turn about the destination of the arc x: the opposite of its next
Rotate(G, x) ==
  IF x \in DOMAIN G.arcs /\ G.arcs[x].next # NoArc THEN into_opposite(G.arcs[x].next) ELSE x

\* the arcs reached from x in fewer than n turns
RECURSIVE Turns(_, _, _)
Turns(G, x, n) == IF n = 0 THEN {} ELSE {x} \cup Turns(G, Rotate(G, x), n - 1)

\* the arcs into v make one fan: they are the arcs reached from one of them
\* by turns
SingleFan(G, v) ==
  \A S \in {Incoming(G, v)} : \E x \in S : Turns(G, x, Cardinality(S)) = S

AllPaired(G, v) ==
  \A ab \in DOMAIN G.arcs : v \in {ab[1], ab[2]} => into_opposite(ab) \in DOMAIN G.arcs

FaceArcsOnly(G) ==
  [G EXCEPT !.arcs = [ab \in {x \in DOMAIN G.arcs : G.arcs[x].face # NoFace} |-> G.arcs[ab]]]

\* the mesh whose edges outside every face are not linked: an edge along a
\* boundary has an opposite without a next
Unlinked(G) ==
  [G EXCEPT !.arcs = [ab \in DOMAIN G.arcs |->
     IF G.arcs[ab].face = NoFace
     THEN [G.arcs[ab] EXCEPT !.next = NoArc, !.previous = NoArc]
     ELSE G.arcs[ab]]]

Outgoing(G, v) == {ab \in DOMAIN G.arcs : ab[1] = v}

\* the circulator of a vertex whose outgoing edge is e, collected
EdgesFrom(G, e) == Drain(G, [edge |-> e, breadcrumb |-> e], arc_count(G) + 1, <<>>)

\* the drain r of the circulator that started at the edge e of the mesh M
\* has ended within as many items as the mesh has edges, without an item
\* twice and with no panic but for an edge e that is not in storage, and a
\* call of next on the circulator it has left yields no item and leaves it
\* as it is
Ended(M, e, r) ==
  /\ r.ended
  /\ ~r.panic \/ e \notin DOMAIN M.arcs
  /\ NoRepeat(r.items)
  /\ EdgeCirculator_next(M, r.c) = [Yield(NoArc, r.c) EXCEPT !.panic = r.panic]

\* the meshes made of a graph: the graph without the edges along its
\* boundaries, and the graph with those edges not linked
MeshesOf(G) == {FaceArcsOnly(G), Unlinked(G)}

\* C35: the circulator of each vertex of a graph that was read has ended,
\* without a panic; and on the graph and on each of the meshes made of it,
\* the circulator ends from each edge a vertex may hold as its outgoing
\* edge, and from none
C35_CirculatorEnds ==
  (last.op = "edges") =>
    /\ \A v \in DOMAIN graph.vertices :
         /\ Ended(graph, graph.vertices[v].arc, last.read[v])
         /\ ~last.read[v].panic
    /\ \A M \in {graph} \cup MeshesOf(graph) :
         \A e \in (DOMAIN M.arcs) \cup {M.vertices[v].arc : v \in DOMAIN M.vertices} \cup {NoArc} :
           Ended(M, e, EdgesFrom(M, e))

\* the circulators of a graph with a face were read: one has come back to
\* its breadcrumb after three edges or more; on the mesh without the edges
\* along the boundary a circulator yields an edge and ends on an edge
\* without an opposite; on the mesh with those edges not linked one yields
\* an edge without a next and ends
C35_Witness ==
  /\ last.op = "edges"
  /\ \E v \in DOMAIN graph.vertices : \E r \in {last.read[v]} :
       /\ r.ended
       /\ Len(r.items) >= 3
       /\ r.c.breadcrumb = NoArc
  /\ \E v \in DOMAIN graph.vertices : \E e \in Outgoing(FaceArcsOnly(graph), v) :
       \E r \in {EdgesFrom(FaceArcsOnly(graph), e)} :
         /\ r.ended
         /\ Len(r.items) >= 1
         /\ r.c.breadcrumb # NoArc
         /\ reachable_opposite_arc(FaceArcsOnly(graph), r.c.edge) = NoArc
  /\ \E v \in DOMAIN graph.vertices : \E e \in Outgoing(graph, v) :
       \E r \in {EdgesFrom(Unlinked(graph), e)} :
         /\ r.ended
         /\ Len(r.items) >= 1
         /\ r.c.edge = NoArc

(* ----------------------- vertex face circulator ------------------------ *)
\* a face circulator that ends on the first edge without a face
face_or_stop(G, y) ==
  IF y.item = NoArc THEN [item |-> NoFace, c |-> y.c, panic |-> y.panic]
  ELSE [item |-> G.arcs[y.item].face, c |-> y.c, panic |-> FALSE]

FaceCirculator_next_stopping(G, c) == face_or_stop(G, EdgeCirculator_next(G, c))

\* FaceCirculator::next: calls of the edge circulator until one yields an
\* edge with a face, which is the item, or yields none
RECURSIVE FaceCirculator_next(_, _)
face_or_skip(G, y) ==
  IF y.item = NoArc THEN [item |-> NoFace, c |-> y.c, panic |-> y.panic]
  ELSE IF G.arcs[y.item].face # NoFace THEN [item |-> G.arcs[y.item].face, c |-> y.c, panic |-> FALSE]
  ELSE FaceCirculator_next(G, y.c)

FaceCirculator_next(G, c) == face_or_skip(G, EdgeCirculator_next(G, c))

\* the items of n calls of next at most, up to the first call without an
\* item, and the edge circulator left
RECURSIVE DrainFaces(_, _, _, _)
face_drain_step(G, y, n, items) ==
  IF y.item = NoFace THEN [items |-> items, c |-> y.c, ended |-> TRUE, panic |-> y.panic]
  ELSE DrainFaces(G, y.c, n - 1, Append(items, y.item))

DrainFaces(G, c, n, items) ==
  IF n = 0 THEN [items |-> items, c |-> c, ended |-> FALSE, panic |-> FALSE]
  ELSE face_drain_step(G, FaceCirculator_next(G, c), n, items)

\* VertexView::faces, collected
faces(G, v) == DrainFaces(G, EdgeCirculator_new(G, v), arc_count(G) + 1, <<>>)

\* the faces of the edges of s that have one, in the order of s
RECURSIVE FacesOfEdges(_, _)
FacesOfEdges(G, s) ==
  IF s = <<>> THEN <<>>
  ELSE IF G.arcs[Head(s)].face # NoFace THEN <<G.arcs[Head(s)].face>> \o FacesOfEdges(G, Tail(s))
  ELSE FacesOfEdges(G, Tail(s))

\* the drain f of the face circulator of the vertex v of the mesh M holds
\* the faces of the edges the edge circulator yields, in that order and
\* without the edges that have no face, and it has ended with the edge
\* circulator where a drain of the edge circulator ends
FacesFollowEdges(M, v, f) ==
  \A e \in {edges(M, v)} :
    /\ f.ended
    /\ ~f.panic
    /\ f.items = FacesOfEdges(M, e.items)
    /\ f.c = e.c
    /\ FaceCirculator_next(M, f.c) = [item |-> NoFace, c |-> f.c, panic |-> FALSE]

\* C36: the face circulator of each vertex of a graph that was read has
\* followed the edge circulator, and so it does on the same graph with the
\* edges outside faces not linked
C36_FacesOfIncoming ==
  (last.op = "faces") =>
    \A v \in DOMAIN graph.vertices :
      /\ FacesFollowEdges(graph, v, last.read[v])
      /\ FacesFollowEdges(Unlinked(graph), v, faces(Unlinked(graph), v))

\* a vertex whose edge circulator yields an edge without a face and after
\* it an edge with a face, which the face circulator has yielded
C36_Witness ==
  /\ last.op = "faces"
  /\ \E v \in DOMAIN graph.vertices : \E e \in {edges(graph, v)} : \E f \in {last.read[v]} :
       /\ f.ended
       /\ \E i \in 1..Len(e.items) : \E j \in 1..Len(e.items) :
            /\ i < j
            /\ graph.arcs[e.items[i]].face = NoFace
            /\ graph.arcs[e.items[j]].face # NoFace
            /\ graph.arcs[e.items[j]].face \in SeqToSet(f.items)
       /\ Len(f.items) >= 1
       /\ Len(f.items) < Len(e.items)

(* ------------------------- arc face circulator ------------------------- *)
\* a circulator that chains the face of the arc to itself
ArcFaceCirculator_from_twice(G, ab) ==
  (IF G.arcs[ab].face # NoFace THEN <<G.arcs[ab].face>> ELSE <<>>)
    \o (IF G.arcs[ab].face # NoFace THEN <<G.arcs[ab].face>> ELSE <<>>)

\* FaceCirculator::from(arc): the key of the face of the arc, if it has one,
\* and then the key of the face of its opposite arc, if that is in storage
\* and has one
ArcFaceCirculator_from(G, ab) ==
  (IF G.arcs[ab].face # NoFace THEN <<G.arcs[ab].face>> ELSE <<>>)
    \o (IF reachable_opposite_arc(G, ab) # NoArc /\ G.arcs[into_opposite(ab)].face # NoFace
        THEN <<G.arcs[into_opposite(ab)].face>> ELSE <<>>)

\* Iterator::next over `&mut`: the orphan view bound to the first key left,
\* when that key is in storage, and the circulator without it
OrphanCirculator_next(payloads, inner) ==
  IF inner = <<>> THEN [item |-> <<>>, inner |-> <<>>]
  ELSE [item |-> IF Head(inner) \in DOMAIN payloads THEN <<OrphanView(payloads, Head(inner))>> ELSE <<>>,
        inner |-> Tail(inner)]

\* the orphan views a loop over the circulator is handed: up to the first
\* call of next that gives none
RECURSIVE OrphanCirculator_collect(_, _)
orphan_collect_step(payloads, y) ==
  IF y.item = <<>> THEN <<>> ELSE y.item \o OrphanCirculator_collect(payloads, y.inner)

OrphanCirculator_collect(payloads, inner) ==
  orphan_collect_step(payloads, OrphanCirculator_next(payloads, inner))

\* ArcView::face_orphans
face_orphans(G, ab) == OrphanCirculator_collect(G.faces, ArcFaceCirculator_from(G, ab))

\* ArcView::vertex_orphans
vertex_orphans(G, ab) == OrphanCirculator_collect(G.vertices, VertexCirculator_from(ab))

KeysOf(views) == [i \in 1..Len(views) |-> views[i].key]

\* C37: on each arc of a graph that was read, the face circulator held two
\* faces at most, the face of the arc before the face of its opposite, and
\* never one face twice; face_orphans has handed out one orphan view for
\* each of them, vertex_orphans one for the source and one for the
\* destination, and these are two vertices
C37_ArcFacesDistinct ==
  (last.op = "arc_faces") =>
    \A ab \in DOMAIN graph.arcs : \A r \in {last.read[ab]} :
      /\ Len(r.inner) <= 2
      /\ Len(r.inner) = Cardinality({x \in {ab, into_opposite(ab)} : graph.arcs[x].face # NoFace})
      /\ (graph.arcs[ab].face # NoFace) => r.inner[1] = graph.arcs[ab].face
      /\ (graph.arcs[into_opposite(ab)].face # NoFace) =>
            r.inner[Len(r.inner)] = graph.arcs[into_opposite(ab)].face
      /\ NoRepeat(r.inner)
      /\ KeysOf(r.faces) = r.inner
      /\ NoRepeat(KeysOf(r.faces))
      /\ ab[1] # ab[2]
      /\ KeysOf(r.vertices) = <<ab[1], ab[2]>>
      /\ NoRepeat(KeysOf(r.vertices))

\* an arc between two faces was read, and face_orphans has handed out the
\* orphan views of both, first the one of the face of the arc
C37_Witness ==
  /\ last.op = "arc_faces"
  /\ \E ab \in DOMAIN graph.arcs :
       /\ Len(last.read[ab].faces) = 2
       /\ last.read[ab].faces[1].key = graph.arcs[ab].face
       /\ last.read[ab].faces[2].key = graph.arcs[into_opposite(ab)].face
       /\ last.read[ab].faces[1].key # last.read[ab].faces[2].key
       /\ Len(last.read[ab].vertices) = 2

(* --------------------------- ring continuity --------------------------- *)
\* C38: in a graph handed back by a construction or left by an edit, the
\* next arc of an arc (A, B) is in storage and leaves the vertex B, and its
\* previous arc is in storage and enters the vertex A; both vertices are in
\* storage
C38_RingContinuity ==
  (status = "ok") =>
    \A ab \in DOMAIN graph.arcs :
      /\ (graph.arcs[ab].next # NoArc) =>
            /\ reachable_next_arc(graph, ab) # NoArc
            /\ reachable_destination_vertex(graph, ab) # NoVertex
            /\ reachable_source_vertex(graph, reachable_next_arc(graph, ab))
                 = reachable_destination_vertex(graph, ab)
      /\ (graph.arcs[ab].previous # NoArc) =>
            /\ reachable_previous_arc(graph, ab) # NoArc
            /\ reachable_source_vertex(graph, ab) # NoVertex
            /\ reachable_destination_vertex(graph, reachable_previous_arc(graph, ab))
                 = reachable_source_vertex(graph, ab)

\* a bridge has put a face on an arc, and the arc has a next arc that leaves
\* its destination and a previous arc that enters its source
C38_Witness ==
  /\ Succeeded("bridge")
  /\ graph.arcs[last.src].face # NoFace
  /\ prev.arcs[last.src].face = NoFace
  /\ graph.arcs[last.src].next # NoArc
  /\ graph.arcs[last.src].next[1] = last.src[2]
  /\ graph.arcs[last.src].previous # NoArc
  /\ graph.arcs[last.src].previous[2] = last.src[1]
  /\ graph.arcs[last.src].next # prev.arcs[last.src].next

(* -------------------------------- smooth ------------------------------- *)
ReverseSeq(s) == [i \in 1..Len(s) |-> s[Len(s) + 1 - i]]

RotateSeq(s) == IF s = <<>> THEN s ELSE Tail(s) \o <<Head(s)>>

\* some of the orders in which a storage may yield its keys
Orders(S) ==
  {KeysInOrder(S), ReverseSeq(KeysInOrder(S)), RotateSeq(KeysInOrder(S)),
   RotateSeq(ReverseSeq(KeysInOrder(S)))}

\* C39: a smooth never panics on the lookup of a new position; it leaves
\* each vertex at the position computed from the positions and the links of
\* the graph before the call; it leaves the links, the keys, the counts and
\* the geometry of the arcs, edges and faces as they were; and with the
\* vertices visited and the orphan views handed out in other orders it
\* gives the same graph, with each position of the map written and none left
C39_SmoothTwoPhase ==
  (last.op = "smooth") =>
    /\ last.kind = "Ok"
    /\ Topology(graph) = Topology(prev)
    /\ DOMAIN graph.vertices = DOMAIN prev.vertices
    /\ graph.arcs = prev.arcs
    /\ graph.edges = prev.edges
    /\ graph.faces = prev.faces
    /\ \A v \in DOMAIN prev.vertices :
         graph.vertices[v].geometry = smoothed_position(prev, v, last.value)
    /\ \A keys \in Orders(DOMAIN prev.vertices) : \A order \in Orders(DOMAIN prev.vertices) :
         \A r \in {smooth_with(prev, last.value, keys, Orphans(prev.vertices, order))} :
           /\ ~r.panic
           /\ DOMAIN r.positions = {}
           /\ r.g = graph

\* a smooth has moved a vertex whose neighbour it has moved too, and a
\* smooth of one loop would have left the graph otherwise
C39_Witness ==
  /\ last.op = "smooth"
  /\ last.kind = "Ok"
  /\ vertex_count(graph) >= 3
  /\ \E v \in DOMAIN graph.vertices : \E w \in Neighbours(prev, v) :
       /\ graph.vertices[v].geometry # prev.vertices[v].geometry
       /\ graph.vertices[w].geometry # prev.vertices[w].geometry
  /\ smooth_in_place(prev, last.value).g # graph

(* ------------------------- mesh buffers by face ------------------------ *)
\* f(face, vertex) for each vertex of the face f, in the order of its ring:
\* the face, the vertex and the geometry of the vertex
FaceCorners(G, f) ==
  [i \in 1..face_arity(G, f) |->
     [face |-> f, vertex |-> face_vertices(G, f)[i],
      geometry |-> G.vertices[face_vertices(G, f)[i]].geometry]]

\* a loop over faces() that leaves out a face of another arity than A
RECURSIVE BufferCornersSkipping(_, _, _, _, _)
BufferCornersSkipping(G, fkeys, A, i, corners) ==
  IF i > Len(fkeys)
  THEN [ok |-> TRUE, err |-> "", vertices |-> corners,
        indices |-> [n \in 1..Len(corners) |-> n - 1], detail |-> <<0, 0>>]
  ELSE IF face_arity(G, fkeys[i]) # A
  THEN BufferCornersSkipping(G, fkeys, A, i + 1, corners)
  ELSE BufferCornersSkipping(G, fkeys, A, i + 1, corners \o FaceCorners(G, fkeys[i]))

to_mesh_buffer_by_face_skipping(G, A) ==
  BufferCornersSkipping(G, KeysInOrder(DOMAIN G.faces), A, 1, <<>>)

\* the loop over faces() of to_mesh_buffer_by_face_with: a face of another
\* arity than A ends it with ArityConflict; the indices are 0..len in order
RECURSIVE BufferCorners(_, _, _, _, _)
BufferCorners(G, fkeys, A, i, corners) ==
  IF i > Len(fkeys)
  THEN [ok |-> TRUE, err |-> "", vertices |-> corners,
        indices |-> [n \in 1..Len(corners) |-> n - 1], detail |-> <<0, 0>>]
  ELSE IF face_arity(G, fkeys[i]) # A
  THEN [ok |-> FALSE, err |-> "ArityConflict", vertices |-> <<>>, indices |-> <<>>,
        detail |-> <<A, face_arity(G, fkeys[i])>>]
  ELSE BufferCorners(G, fkeys, A, i + 1, corners \o FaceCorners(G, fkeys[i]))

\* MeshGraph::to_mesh_buffer_by_face_with for the arity A
to_mesh_buffer_by_face_with(G, A) ==
  BufferCorners(G, KeysInOrder(DOMAIN G.faces), A, 1, <<>>)

\* the arities a caller asks a buffer for
Arities == {3, 4}

\* the faces of another arity than A before which each face has the arity A
FirstOther(G, A) ==
  {f \in DOMAIN G.faces :
     /\ face_arity(G, f) # A
     /\ \A g \in DOMAIN G.faces : g < f => face_arity(G, g) = A}

\* C40: for a graph that was read and an arity A, the graph is as it was,
\* and both conversions have failed with ArityConflict, A and the arity of
\* the first face of another arity when there is one; else the buffer by
\* vertex has a vertex for each vertex of the graph and A indices for each
\* face, the k-th index of the j-th face being the number of the k-th vertex
\* of that face in the enumeration of the vertices, and the buffer by face
\* has the A vertices of each face in turn, with the indices 0, 1, 2, .. in
\* order
C40_BufferArity ==
  (last.op = "to_mesh_buffer") =>
    /\ graph = prev
    /\ \A A \in Arities :
        \A bv \in {last.read[A].by_vertex} :
        \A bf \in {last.read[A].by_face} :
        \A fs \in {KeysInOrder(DOMAIN graph.faces)} :
        \A vs \in {KeysInOrder(DOMAIN graph.vertices)} :
          IF FirstOther(graph, A) # {}
          THEN /\ ~bv.ok /\ bv.err = "ArityConflict"
               /\ ~bf.ok /\ bf.err = "ArityConflict"
               /\ bv.detail = bf.detail
               /\ bv.detail[1] = A
               /\ bv.detail[2] # A
               /\ \E f \in FirstOther(graph, A) : bv.detail[2] = face_arity(graph, f)
          ELSE /\ bv.ok /\ bf.ok
               /\ bv.nverts = vertex_count(graph)
               /\ Len(bv.indices) = A * face_count(graph)
               /\ \A j \in 1..Len(fs) : \A fv \in {face_vertices(graph, fs[j])} : \A k \in 1..A :
                    /\ bv.indices[(j - 1) * A + k] \in 0..(vertex_count(graph) - 1)
                    /\ vs[bv.indices[(j - 1) * A + k] + 1] = fv[k]
                    /\ bf.vertices[(j - 1) * A + k].face = fs[j]
                    /\ bf.vertices[(j - 1) * A + k].vertex = fv[k]
                    /\ bf.vertices[(j - 1) * A + k].geometry = graph.vertices[fv[k]].geometry
               /\ Len(bf.vertices) = A * face_count(graph)
               /\ bf.indices = [n \in 1..(A * face_count(graph)) |-> n - 1]

\* a graph of a quadrilateral and, after it, a triangle was read: the
\* buffers of arity 4 were refused at the second face, with 4 expected and 3
\* found, and the buffers of arity 3 at the first, with 3 expected and 4 found
C40_Witness ==
  /\ last.op = "to_mesh_buffer"
  /\ face_count(graph) = 2
  /\ \E f \in FirstOther(graph, 4) : \E g \in DOMAIN graph.faces : g < f /\ face_arity(graph, g) = 4
  /\ last.read[4].by_face.detail = <<4, 3>>
  /\ last.read[4].by_vertex.detail = <<4, 3>>
  /\ last.read[3].by_face.detail = <<3, 4>>
  /\ last.read[3].by_vertex.detail = <<3, 4>>

(* ------------------------------- reading ------------------------------- *)
\* the reads of a graph: the edge circulator and the face circulator of
\* each vertex, the face and vertex orphans of each arc, and the buffers
ReadOps == {"edges", "faces", "arc_faces", "to_mesh_buffer"}

\* what the caller is handed by the read `op` of the graph G
ReadResult(G, op) ==
  CASE op = "edges" -> [v \in DOMAIN G.vertices |-> edges(G, v)]
    [] op = "faces" -> [v \in DOMAIN G.vertices |-> faces(G, v)]
    [] op = "arc_faces" ->
         [ab \in DOMAIN G.arcs |->
            [inner |-> ArcFaceCirculator_from(G, ab),
             faces |-> face_orphans(G, ab),
             vertices |-> vertex_orphans(G, ab)]]
    [] op = "to_mesh_buffer" ->
         [A \in Arities |->
            [by_vertex |-> to_mesh_buffer_by_vertex_with(G, A),
             by_face |-> to_mesh_buffer_by_face_with(G, A)]]

\* a graph is read after a construction, after a collect and after each
\* edit but the last of a run
Readable ==
  status = "ok" /\ (edits > 0 \/ last.op \in {"build", "from_raw_buffers", "from_encoding", "collect"})

\* vertex.edges(), vertex.faces(), arc.face_orphans() and
\* arc.vertex_orphans(), to_mesh_buffer_by_vertex_with and
\* to_mesh_buffer_by_face_with: the graph is left as it is, and is followed
\* no further
Read(op) ==
  /\ Readable
  /\ last' = [NoCall EXCEPT !.op = op, !.read = ReadResult(graph, op)]
  /\ graph' = graph
  /\ prev' = graph
  /\ status' = "read"
  /\ edits' = 0

(* ---------------------------- specification ---------------------------- *)
Next ==
  \/ \E i \in 1..Len(Inputs) : Build(i)
  \/ \E i \in 1..Len(RawInputs) : BuildPolygons(i)
  \/ \E i \in 1..Len(Encodings) : Decode(i)
  \/ \E i \in 1..Len(Polygons) : Collect(i)
  \/ CanEdit /\ \E ab \in DOMAIN graph.arcs : Split(ab)
  \/ CanEdit /\ \E ab \in DOMAIN graph.arcs : \E d \in Selectors(graph) : Bridge(ab, d)
  \/ CanEdit /\ \E ab \in DOMAIN graph.arcs : Extrude(ab)
  \/ CanEdit /\ \E ab \in DOMAIN graph.arcs : Remove(ab)
  \/ Triangulate
  \/ \E elem \in ElementKinds : Write(elem, 1)
  \/ \E factor \in Factors : Smooth(factor)
  \/ \E op \in ReadOps : Read(op)

Spec == Init /\ [][Next]_vars

====
